---------------------------- MODULE Spec2Model ----------------------------
(***************************************************************************)
(* txtr: extraction of printable strings from binary input.                *)
(*                                                                         *)
(* The module models the scanners of internal/extractor (the streaming     *)
(* scanners that read from a bufio.Reader and the byte-slice scanners the  *)
(* memory-mapped path and ExtractFromSection drive), the pattern filter,   *)
(* and the file-level orchestration of cmd/txtr.                           *)
(*                                                                         *)
(* Bytes are the integers 0..255, runes are integers, a string is a        *)
(* sequence of bytes.  Offsets are 0-based as in the Go code; sequences    *)
(* are 1-based, so data[p + 1] is the byte at offset p.                    *)
(***************************************************************************)
EXTENDS Integers, Sequences, FiniteSets, TLC

VARIABLES
    data,     \* the content of the input file
    cfg,      \* extractor.Config, read-only after construction
    errAt,    \* 0, or the 1-based index of the byte whose read fails
    pc,       \* position of the driver: which path has run
    st,       \* the streaming scanner's local variables and its sink
    mp,       \* the mapped path's result: its sink and its error
    verdict,  \* what ShouldPrintString returned for the candidate
    fs,       \* the file as ExtractStringsFromFile finds it, and the mmap options
    ret,      \* what ExtractStringsFromFile returned
    bin,      \* the file as the binary parser finds it, and the request
    sec,      \* what the processing of the data sections has done
    cli,      \* the command line: the pattern texts and the ignore-case flag
    mn,       \* main's locals: the compiled sets, the error, what was opened
    cls,      \* one call of a classifier: its arguments and its result
    objs,     \* Statistics objects under a sequence of calls, with their history
    batch,    \* the invocation: files, workers, output mode, flags
    idx,      \* main's loop index over the files or the collected outputs
    jobs,     \* the jobs channel: what was sent and not yet received
    results,  \* the results channel
    closed,   \* which of the two channels are closed
    wk,       \* the worker goroutines: position, job and local buffer
    outputs,  \* the collector's slice of results, by index
    order,    \* history: the file indices in the order their results arrived;
              \* for a JSON printer on its own, the calls made on it
    jp,       \* the JSON printer main flushes
    agg,      \* the Statistics main formats
    stdout,   \* what was written to standard output
    stderr    \* the files reported on standard error

scanVars == <<data, cfg, errAt, pc, st, mp>>

scanVarsButPc == <<data, cfg, errAt, st, mp>>

fileVars == <<fs, ret>>

sectionVars == <<bin, sec>>

mainVars == <<cli, mn>>

batchVars == <<batch, idx, jobs, results, closed, wk, outputs, order, jp, agg,
               stdout, stderr>>

----------------------------------------------------------------------------
(* Bounds of the model *)

MaxUnits == 3

MaxMinLength == 2

\* Units of input of the step-by-step specification.
MaxStepUnits == 2

----------------------------------------------------------------------------
(* Printability classifiers *)

IsWhitespace(c) == c = 9 \/ c = 10 \/ c = 13 \/ c = 11 \/ c = 12

\* isPrintableASCII with the 7-bit range closed at 127.
isPrintableASCIIWithDel(b, allow8bit, includeAllWhitespace) ==
    IF includeAllWhitespace /\ IsWhitespace(b) THEN TRUE
    ELSE IF b >= 32 /\ b <= 127 THEN TRUE
    ELSE IF allow8bit /\ b >= 128 THEN TRUE
    ELSE FALSE

isPrintableASCII(b, allow8bit, includeAllWhitespace) ==
    IF includeAllWhitespace /\ IsWhitespace(b) THEN TRUE
    ELSE IF b >= 32 /\ b <= 126 THEN TRUE
    ELSE IF allow8bit /\ b >= 128 THEN TRUE
    ELSE FALSE

\* isPrintableRune with the third range closed at 0xFFFF.
isPrintableRuneWithNonchars(r, includeAllWhitespace) ==
    IF includeAllWhitespace /\ IsWhitespace(r) THEN TRUE
    ELSE IF r >= 32 /\ r <= 126 THEN TRUE
    ELSE IF r >= 160 /\ r <= 55295 THEN TRUE
    ELSE IF r >= 57344 /\ r <= 65535 THEN TRUE
    ELSE IF r >= 65536 /\ r <= 1114111 THEN TRUE
    ELSE FALSE

isPrintableRune(r, includeAllWhitespace) ==
    IF includeAllWhitespace /\ IsWhitespace(r) THEN TRUE
    ELSE IF r >= 32 /\ r <= 126 THEN TRUE
    ELSE IF r >= 160 /\ r <= 55295 THEN TRUE
    ELSE IF r >= 57344 /\ r <= 65533 THEN TRUE
    ELSE IF r >= 65536 /\ r <= 1114111 THEN TRUE
    ELSE FALSE

----------------------------------------------------------------------------
(* unicode/utf8, unicode/utf16 and encoding/binary as the scanners use them *)

IsCont(b) == b \div 64 = 2        \* b & 0xC0 == 0x80

\* Length of the well-formed UTF-8 sequence at the head of bs, 0 when the
\* head is not the start of one (utf8.Valid's acceptance table).
utf8HeadLen(bs) ==
    LET n  == Len(bs)
        b0 == bs[1]
        in(i, lo, hi) == n >= i /\ bs[i] >= lo /\ bs[i] <= hi
    IN  IF b0 < 128 THEN 1
        ELSE IF b0 >= 194 /\ b0 <= 223 /\ in(2, 128, 191) THEN 2
        ELSE IF b0 = 224 /\ in(2, 160, 191) /\ in(3, 128, 191) THEN 3
        ELSE IF ((b0 >= 225 /\ b0 <= 236) \/ b0 = 238 \/ b0 = 239)
                /\ in(2, 128, 191) /\ in(3, 128, 191) THEN 3
        ELSE IF b0 = 237 /\ in(2, 128, 159) /\ in(3, 128, 191) THEN 3
        ELSE IF b0 = 240 /\ in(2, 144, 191) /\ in(3, 128, 191) /\ in(4, 128, 191) THEN 4
        ELSE IF b0 >= 241 /\ b0 <= 243
                /\ in(2, 128, 191) /\ in(3, 128, 191) /\ in(4, 128, 191) THEN 4
        ELSE IF b0 = 244 /\ in(2, 128, 143) /\ in(3, 128, 191) /\ in(4, 128, 191) THEN 4
        ELSE 0

RECURSIVE utf8Valid(_)
utf8Valid(bs) ==
    IF bs = <<>> THEN TRUE
    ELSE LET k == utf8HeadLen(bs)
         IN  k > 0 /\ utf8Valid(SubSeq(bs, k + 1, Len(bs)))

\* utf8.DecodeRune on a slice that starts with a well-formed sequence.
utf8DecodeRune(bs) ==
    LET k == utf8HeadLen(bs)
    IN  CASE k = 1 -> bs[1]
          [] k = 2 -> (bs[1] - 192) * 64 + (bs[2] - 128)
          [] k = 3 -> (bs[1] - 224) * 4096 + (bs[2] - 128) * 64 + (bs[3] - 128)
          [] k = 4 -> (bs[1] - 240) * 262144 + (bs[2] - 128) * 4096
                      + (bs[3] - 128) * 64 + (bs[4] - 128)
          [] OTHER -> 65533

utf8ValidRune(r) == (r >= 0 /\ r < 55296) \/ (r > 57343 /\ r <= 1114111)

\* The UTF-8 encoding of one rune, as the conversion string([]rune) makes it:
\* a value that is no Unicode scalar is encoded as U+FFFD.
EncodeRune(r) ==
    IF ~utf8ValidRune(r) THEN <<239, 191, 189>>
    ELSE IF r < 128 THEN <<r>>
    ELSE IF r < 2048 THEN <<192 + (r \div 64), 128 + (r % 64)>>
    ELSE IF r < 65536
         THEN <<224 + (r \div 4096), 128 + ((r \div 64) % 64), 128 + (r % 64)>>
    ELSE <<240 + (r \div 262144), 128 + ((r \div 4096) % 64),
           128 + ((r \div 64) % 64), 128 + (r % 64)>>

RECURSIVE EncodeRunes(_)
EncodeRunes(rs) ==
    IF rs = <<>> THEN <<>> ELSE EncodeRune(Head(rs)) \o EncodeRunes(Tail(rs))

utf16IsSurrogate(r) == r >= 55296 /\ r < 57344

utf16DecodeRune(r1, r2) ==
    IF r1 >= 55296 /\ r1 < 56320 /\ r2 >= 56320 /\ r2 < 57344
    THEN (r1 - 55296) * 1024 + (r2 - 56320) + 65536
    ELSE 65533

IsBigEndian(enc) == enc = "b" \/ enc = "B"

Uint16(bs, big) ==
    IF big THEN bs[1] * 256 + bs[2] ELSE bs[2] * 256 + bs[1]

\* rune(byteOrder.Uint32(bs)): the 32-bit unit converted to int32.  The most
\* significant byte carries the sign, so every value stays within 32 bits.
RuneOfUint32(bs, big) ==
    LET be  == IF big THEN bs ELSE <<bs[4], bs[3], bs[2], bs[1]>>
        top == IF be[1] >= 128 THEN be[1] - 256 ELSE be[1]
    IN  top * 16777216 + be[2] * 65536 + be[3] * 256 + be[4]

----------------------------------------------------------------------------
(* fmt.Sprintf of the display forms of the UTF-8-aware scanner *)

HexDigit(d) == IF d < 10 THEN 48 + d ELSE 87 + d

RECURSIVE HexDigits(_)
HexDigits(n) ==
    IF n < 16 THEN <<HexDigit(n)>>
    ELSE Append(HexDigits(n \div 16), HexDigit(n % 16))

RECURSIVE PadZero(_, _)
PadZero(ds, w) == IF Len(ds) >= w THEN ds ELSE PadZero(<<48>> \o ds, w)

\* The display form appended to currentOutput for one accepted rune.
DisplayForm(mode, r, runeBytes) ==
    CASE mode = "locale"    -> runeBytes
      [] mode = "escape"    -> <<92, 117>> \o PadZero(HexDigits(r), 4)
      [] mode = "hex"       -> <<60>> \o PadZero(HexDigits(r), 2) \o <<62>>
      [] mode = "highlight" -> <<27, 91, 49, 109, 92, 117>> \o PadZero(HexDigits(r), 4)
                               \o <<27, 91, 48, 109>>
      [] OTHER              -> runeBytes

----------------------------------------------------------------------------
(* The pattern filter.  A compiled pattern is a literal byte; it matches a *)
(* candidate that contains the byte (regexp.Match of a one-literal regexp). *)

PatternMatch(p, str) == \E i \in 1..Len(str) : str[i] = p

\* ShouldPrintString with the two checks in the other order: the match
\* patterns decide before the exclude patterns are looked at.
ShouldPrintStringMatchFirst(str, c) ==
    IF Len(c.MatchPatterns) > 0
       /\ \E i \in 1..Len(c.MatchPatterns) : PatternMatch(c.MatchPatterns[i], str)
    THEN TRUE
    ELSE IF Len(c.ExcludePatterns) > 0
            /\ \E i \in 1..Len(c.ExcludePatterns) : PatternMatch(c.ExcludePatterns[i], str)
    THEN FALSE
    ELSE Len(c.MatchPatterns) = 0

ShouldPrintString(str, c) ==
    IF Len(c.ExcludePatterns) > 0
       /\ \E i \in 1..Len(c.ExcludePatterns) : PatternMatch(c.ExcludePatterns[i], str)
    THEN FALSE
    ELSE IF Len(c.MatchPatterns) > 0
    THEN \E i \in 1..Len(c.MatchPatterns) : PatternMatch(c.MatchPatterns[i], str)
    ELSE TRUE

----------------------------------------------------------------------------
(* The byte source: a bufio.Reader over the file content.  A read of the   *)
(* byte at offset p delivers data[p + 1], io.EOF past the end, and the     *)
(* read error when errAt names that byte: errAt = k > 0 is a source that   *)
(* fails on every read of byte k, errAt = -k one that fails on the first   *)
(* read of byte k only (bufio returns an error once and asks the source    *)
(* again on the next read).  s.errs counts the reads that failed.          *)

ErrorAt(s, p) == errAt = p + 1 \/ (errAt = 0 - (p + 1) /\ s.errs = 0)

ReadByte(s, p) ==
    IF ErrorAt(s, p) THEN [status |-> "err", b |-> 0]
    ELSE IF p >= Len(data) THEN [status |-> "eof", b |-> 0]
    ELSE [status |-> "ok", b |-> data[p + 1]]

\* io.ReadFull(bufReader, buf[:w]) at offset p: n bytes read, and nil, io.EOF
\* (nothing read), io.ErrUnexpectedEOF (a partial unit) or the read error.
ReadFull(s, p, w) ==
    LET avail == IF Len(data) - p < w THEN Len(data) - p ELSE w
        bad   == {k \in 0..(avail - 1) : ErrorAt(s, p + k)}
        n     == IF bad = {} THEN (IF avail < 0 THEN 0 ELSE avail)
                 ELSE CHOOSE k \in bad : \A j \in bad : k <= j
    IN  [n      |-> n,
         bytes  |-> SubSeq(data, p + 1, p + n),
         status |-> IF n = w THEN "ok"
                    ELSE IF ErrorAt(s, p + n) THEN "err"
                    ELSE IF n = 0 THEN "eof"
                    ELSE "short"]

----------------------------------------------------------------------------
(* The streaming scanners, one loop iteration per step.                    *)
(*                                                                         *)
(* A scanner state s holds the function's locals: offset, stringStart-     *)
(* Offset (start), currentString or currentRunes (cur), currentOutput      *)
(* (out); the reader's position pos; the calls the sink has received       *)
(* (emit); done once the function has returned, failed when it returned    *)
(* on a read error.  first and units are history: the offset at which the  *)
(* pending run's first accepted unit began, and the units accepted; a sink *)
(* call records them with the length the scanner compared to MinLength     *)
(* (counted).  errEmit is history too: the number of sink calls made when  *)
(* the first read failed.                                                  *)

ScanStart ==
    [pos |-> 0, offset |-> 0, start |-> 0, cur |-> <<>>, out |-> <<>>,
     first |-> 0, units |-> 0, emit |-> <<>>, done |-> FALSE, failed |-> FALSE,
     errs |-> 0, errEmit |-> 0]

SinkCall(bytes, offset, first, units, counted) ==
    [bytes |-> bytes, offset |-> offset, first |-> first, units |-> units,
     counted |-> counted]

\* The calls a sink has received, as the (bytes, offset) pairs it was given.
Pairs(emit) == [i \in DOMAIN emit |-> <<emit[i].bytes, emit[i].offset>>]

\* The flush with the comparison off by one: a run one unit short of
\* MinLength is handed to the sink.
FlushRunShort(s, bytes) ==
    IF Len(s.cur) > 0 /\ Len(s.cur) >= cfg.MinLength - 1
    THEN Append(s.emit, SinkCall(bytes, s.start, s.first, s.units, Len(s.cur)))
    ELSE s.emit

\* if len(currentString) >= config.MinLength { printFunc(...) }
FlushRun(s, bytes) ==
    IF Len(s.cur) >= cfg.MinLength
    THEN Append(s.emit, SinkCall(bytes, s.start, s.first, s.units, Len(s.cur)))
    ELSE s.emit

\* The unit was accepted: it starts a run at startOffset when none is
\* pending, and is appended.
Accept(s, startOffset, unitPos, item, shown) ==
    [s EXCEPT !.start = IF Len(s.cur) = 0 THEN startOffset ELSE @,
              !.first = IF Len(s.cur) = 0 THEN unitPos ELSE @,
              !.units = IF Len(s.cur) = 0 THEN 1 ELSE @ + 1,
              !.cur   = @ \o item,
              !.out   = @ \o shown]

\* The unit was not printable: the pending run is emitted or dropped.
Break(s, bytes) ==
    [s EXCEPT !.emit = FlushRun(s, bytes), !.cur = <<>>, !.out = <<>>, !.units = 0]

\* The end of input with the flush both in the loop's end-of-input branch
\* and behind the loop: the pending run is handed to the sink twice.
AtEOFTwice(s, bytes) ==
    [s EXCEPT !.emit = FlushRun([s EXCEPT !.emit = FlushRun(s, bytes)], bytes),
              !.done = TRUE]

AtEOF(s, bytes) == [s EXCEPT !.emit = FlushRun(s, bytes), !.done = TRUE]

\* A read of this iteration failed: s is the state before the iteration,
\* t the state after it.
NoteError(s, t) ==
    [t EXCEPT !.errs = s.errs + 1,
              !.errEmit = IF s.errs = 0 THEN Len(s.emit) ELSE s.errEmit]

\* The read error is reported and the scanner returns.
OnReadError(s) == NoteError(s, [s EXCEPT !.done = TRUE, !.failed = TRUE])

UsesUTF8Aware(c) == c.Unicode # "default" /\ c.Unicode # "invalid" /\ c.Unicode # ""

\* extractASCII with stringStartOffset taken after offset++: a run is
\* handed over with the offset of its second byte.
extractASCIIStepLateStart(s, allow8bit) ==
    LET r == ReadByte(s, s.pos)
    IN  CASE r.status = "err" -> OnReadError(s)
          [] r.status = "eof" -> AtEOF(s, s.cur)
          [] OTHER ->
             LET t == IF isPrintableASCII(r.b, allow8bit, cfg.IncludeAllWhitespace)
                      THEN Accept(s, s.offset + 1, s.pos, <<r.b>>, <<r.b>>)
                      ELSE Break(s, s.cur)
             IN  [t EXCEPT !.pos = s.pos + 1, !.offset = s.offset + 1]

\* extractASCII that passes true for allow8Bit whatever the encoding: the
\* bytes of 128 and more are accepted in the 7-bit mode too.
extractASCIIStepAllow8(s, allow8bit) ==
    LET r == ReadByte(s, s.pos)
    IN  CASE r.status = "err" -> OnReadError(s)
          [] r.status = "eof" -> AtEOF(s, s.cur)
          [] OTHER ->
             LET t == IF isPrintableASCII(r.b, TRUE, cfg.IncludeAllWhitespace)
                      THEN Accept(s, s.offset, s.pos, <<r.b>>, <<r.b>>)
                      ELSE Break(s, s.cur)
             IN  [t EXCEPT !.pos = s.pos + 1, !.offset = s.offset + 1]

extractASCIIStep(s, allow8bit) ==
    LET r == ReadByte(s, s.pos)
    IN  CASE r.status = "err" -> OnReadError(s)
          [] r.status = "eof" -> AtEOF(s, s.cur)
          [] OTHER ->
             LET t == IF isPrintableASCII(r.b, allow8bit, cfg.IncludeAllWhitespace)
                      THEN Accept(s, s.offset, s.pos, <<r.b>>, <<r.b>>)
                      ELSE Break(s, s.cur)
             IN  [t EXCEPT !.pos = s.pos + 1, !.offset = s.offset + 1]

\* expectedBytes of a lead byte >= 128.
ExpectedBytes(b) ==
    IF b \div 32 = 6 THEN 1
    ELSE IF b \div 16 = 14 THEN 2
    ELSE IF b \div 8 = 30 THEN 3
    ELSE 0

\* The loop that reads the continuation bytes without UnreadByte: the byte
\* that is no continuation byte stays consumed.
RECURSIVE ReadContinuationNoUnread(_, _, _, _, _)
ReadContinuationNoUnread(s, p, off, runeBytes, left) ==
    IF left = 0
    THEN [valid |-> TRUE, runeBytes |-> runeBytes, pos |-> p, offset |-> off,
          err |-> FALSE]
    ELSE LET r == ReadByte(s, p)
         IN  IF r.status # "ok"
             THEN [valid |-> FALSE, runeBytes |-> runeBytes, pos |-> p, offset |-> off,
                   err |-> r.status = "err"]
             ELSE IF ~IsCont(r.b)
             THEN [valid |-> FALSE, runeBytes |-> runeBytes, pos |-> p + 1,
                   offset |-> off + 1, err |-> FALSE]
             ELSE ReadContinuationNoUnread(s, p + 1, off + 1, Append(runeBytes, r.b),
                                           left - 1)

\* The loop that reads the continuation bytes: a byte that is no
\* continuation byte is unread, a failed read ends the loop.
RECURSIVE ReadContinuation(_, _, _, _, _)
ReadContinuation(s, p, off, runeBytes, left) ==
    IF left = 0
    THEN [valid |-> TRUE, runeBytes |-> runeBytes, pos |-> p, offset |-> off,
          err |-> FALSE]
    ELSE LET r == ReadByte(s, p)
         IN  IF r.status # "ok" \/ ~IsCont(r.b)
             THEN [valid |-> FALSE, runeBytes |-> runeBytes, pos |-> p, offset |-> off,
                   err |-> r.status = "err"]
             ELSE ReadContinuation(s, p + 1, off + 1, Append(runeBytes, r.b), left - 1)

extractUTF8AwareStep(s) ==
    LET r == ReadByte(s, s.pos)
    IN  CASE r.status = "err" -> OnReadError(s)
          [] r.status = "eof" -> AtEOF(s, s.out)
          [] r.b < 128 ->
             LET t == IF isPrintableASCII(r.b, FALSE, cfg.IncludeAllWhitespace)
                      THEN Accept(s, s.offset, s.pos, <<r.b>>, <<r.b>>)
                      ELSE Break(s, s.out)
             IN  [t EXCEPT !.pos = s.pos + 1, !.offset = s.offset + 1]
          [] OTHER ->
             LET c  == ReadContinuation(s, s.pos + 1, s.offset, <<r.b>>,
                                        ExpectedBytes(r.b))
                 rn == utf8DecodeRune(c.runeBytes)
                 t  == IF c.valid /\ utf8Valid(c.runeBytes)
                          /\ isPrintableRune(rn, cfg.IncludeAllWhitespace)
                       THEN Accept(s, c.offset - Len(c.runeBytes) + 1, s.pos,
                                   c.runeBytes, DisplayForm(cfg.Unicode, rn, c.runeBytes))
                       ELSE Break(s, s.out)
                 u  == [t EXCEPT !.pos = c.pos, !.offset = c.offset + 1]
             IN  IF c.err THEN NoteError(s, u) ELSE u

\* extractUTF16 with a loop that reads again when a read came back short:
\* on a trailing odd byte the iteration changes nothing.
extractUTF16StepRetry(s, big) ==
    LET r == ReadFull(s, s.pos, 2)
    IN  CASE r.status = "err" -> OnReadError(s)
          [] r.status = "eof" -> AtEOF(s, EncodeRunes(s.cur))
          [] r.status = "short" -> s
          [] OTHER ->
             LET r1     == Uint16(r.bytes, big)
                 second == ReadFull(s, s.pos + 2, 2)
                 paired == utf16IsSurrogate(r1) /\ second.status = "ok"
                 rn     == IF paired
                           THEN utf16DecodeRune(r1, Uint16(second.bytes, big))
                           ELSE r1
                 off    == IF paired THEN s.offset + 2 ELSE s.offset
                 used   == IF utf16IsSurrogate(r1) THEN 2 + second.n ELSE 2
                 t      == IF isPrintableRune(rn, cfg.IncludeAllWhitespace)
                           THEN Accept(s, off, s.pos, <<rn>>, <<>>)
                           ELSE Break(s, EncodeRunes(s.cur))
                 u      == [t EXCEPT !.pos = s.pos + used, !.offset = off + 2]
             IN  IF utf16IsSurrogate(r1) /\ second.status = "err"
                 THEN NoteError(s, u) ELSE u

extractUTF16Step(s, big) ==
    LET r == ReadFull(s, s.pos, 2)
    IN  CASE r.status = "err" -> OnReadError(s)
          [] r.status \in {"eof", "short"} ->
             [AtEOF(s, EncodeRunes(s.cur)) EXCEPT !.pos = s.pos + r.n]
          [] OTHER ->
             LET r1     == Uint16(r.bytes, big)
                 second == ReadFull(s, s.pos + 2, 2)
                 paired == utf16IsSurrogate(r1) /\ second.status = "ok"
                 rn     == IF paired
                           THEN utf16DecodeRune(r1, Uint16(second.bytes, big))
                           ELSE r1
                 off    == IF paired THEN s.offset + 2 ELSE s.offset
                 used   == IF utf16IsSurrogate(r1) THEN 2 + second.n ELSE 2
                 t      == IF isPrintableRune(rn, cfg.IncludeAllWhitespace)
                           THEN Accept(s, off, s.pos, <<rn>>, <<>>)
                           ELSE Break(s, EncodeRunes(s.cur))
                 u      == [t EXCEPT !.pos = s.pos + used, !.offset = off + 2]
             IN  IF utf16IsSurrogate(r1) /\ second.status = "err"
                 THEN NoteError(s, u) ELSE u

\* extractUTF32 without the flush: a unit that is not printable is passed
\* over and the pending run goes on behind it.
extractUTF32StepSkip(s, big) ==
    LET r == ReadFull(s, s.pos, 4)
    IN  CASE r.status = "err" -> OnReadError(s)
          [] r.status \in {"eof", "short"} ->
             [AtEOF(s, EncodeRunes(s.cur)) EXCEPT !.pos = s.pos + r.n]
          [] OTHER ->
             LET rn == RuneOfUint32(r.bytes, big)
                 t  == IF isPrintableRune(rn, cfg.IncludeAllWhitespace) /\ utf8ValidRune(rn)
                       THEN Accept(s, s.offset, s.pos, <<rn>>, <<>>)
                       ELSE s
             IN  [t EXCEPT !.pos = s.pos + 4, !.offset = s.offset + 4]

extractUTF32Step(s, big) ==
    LET r == ReadFull(s, s.pos, 4)
    IN  CASE r.status = "err" -> OnReadError(s)
          [] r.status \in {"eof", "short"} ->
             [AtEOF(s, EncodeRunes(s.cur)) EXCEPT !.pos = s.pos + r.n]
          [] OTHER ->
             LET rn == RuneOfUint32(r.bytes, big)
                 t  == IF isPrintableRune(rn, cfg.IncludeAllWhitespace) /\ utf8ValidRune(rn)
                       THEN Accept(s, s.offset, s.pos, <<rn>>, <<>>)
                       ELSE Break(s, EncodeRunes(s.cur))
             IN  [t EXCEPT !.pos = s.pos + 4, !.offset = s.offset + 4]

\* extractASCII: the UTF-8-aware scanner replaces it when a unicode mode is set.
extractASCII(s, allow8bit) ==
    IF UsesUTF8Aware(cfg) THEN extractUTF8AwareStep(s) ELSE extractASCIIStep(s, allow8bit)

\* ExtractStrings: the switch over config.Encoding, one iteration of the
\* scanner it selects.
ExtractStringsStep(s) ==
    CASE cfg.Encoding = "s" -> extractASCII(s, FALSE)
      [] cfg.Encoding = "S" -> extractASCII(s, TRUE)
      [] cfg.Encoding = "b" -> extractUTF16Step(s, TRUE)
      [] cfg.Encoding = "l" -> extractUTF16Step(s, FALSE)
      [] cfg.Encoding = "B" -> extractUTF32Step(s, TRUE)
      [] cfg.Encoding = "L" -> extractUTF32Step(s, FALSE)
      [] OTHER              -> extractASCII(s, FALSE)

\* ExtractStrings run to its return.
RECURSIVE ExtractStrings(_)
ExtractStrings(s) == IF s.done THEN s ELSE ExtractStrings(ExtractStringsStep(s))

----------------------------------------------------------------------------
(* The byte-slice scanners.  The loop index i is s.pos; a run's offset is  *)
(* baseOffset + i.  A ...Step operator is one iteration of the loop, or    *)
(* the flush after it; the operator without Step is the whole function.    *)

\* extractASCIIFromBytes without the flush behind the loop: the run the
\* content ends in is dropped.
extractASCIIFromBytesStepNoFlush(s, d, baseOffset, allow8bit) ==
    IF s.pos >= Len(d) THEN [s EXCEPT !.done = TRUE]
    ELSE LET b == d[s.pos + 1]
             t == IF isPrintableASCII(b, allow8bit, cfg.IncludeAllWhitespace)
                  THEN Accept(s, baseOffset + s.pos, baseOffset + s.pos, <<b>>, <<b>>)
                  ELSE Break(s, s.cur)
         IN  [t EXCEPT !.pos = s.pos + 1]

extractASCIIFromBytesStep(s, d, baseOffset, allow8bit) ==
    IF s.pos >= Len(d) THEN AtEOF(s, s.cur)
    ELSE LET b == d[s.pos + 1]
             t == IF isPrintableASCII(b, allow8bit, cfg.IncludeAllWhitespace)
                  THEN Accept(s, baseOffset + s.pos, baseOffset + s.pos, <<b>>, <<b>>)
                  ELSE Break(s, s.cur)
         IN  [t EXCEPT !.pos = s.pos + 1]

RECURSIVE extractASCIIFromBytes(_, _, _, _)
extractASCIIFromBytes(s, d, baseOffset, allow8bit) ==
    IF s.done THEN s
    ELSE extractASCIIFromBytes(extractASCIIFromBytesStep(s, d, baseOffset, allow8bit),
                               d, baseOffset, allow8bit)

extractUTF16FromBytesStep(s, d, baseOffset, big) ==
    IF ~(s.pos < Len(d) - 1) THEN AtEOF(s, EncodeRunes(s.cur))
    ELSE LET rn == Uint16(SubSeq(d, s.pos + 1, s.pos + 2), big)
             t  == IF isPrintableRune(rn, cfg.IncludeAllWhitespace)
                   THEN Accept(s, baseOffset + s.pos, baseOffset + s.pos, <<rn>>, <<>>)
                   ELSE Break(s, EncodeRunes(s.cur))
         IN  [t EXCEPT !.pos = s.pos + 2]

RECURSIVE extractUTF16FromBytes(_, _, _, _)
extractUTF16FromBytes(s, d, baseOffset, big) ==
    IF s.done THEN s
    ELSE extractUTF16FromBytes(extractUTF16FromBytesStep(s, d, baseOffset, big),
                               d, baseOffset, big)

extractUTF32FromBytesStep(s, d, baseOffset, big) ==
    IF ~(s.pos < Len(d) - 3) THEN AtEOF(s, EncodeRunes(s.cur))
    ELSE LET rn == RuneOfUint32(SubSeq(d, s.pos + 1, s.pos + 4), big)
             t  == IF isPrintableRune(rn, cfg.IncludeAllWhitespace) /\ utf8ValidRune(rn)
                   THEN Accept(s, baseOffset + s.pos, baseOffset + s.pos, <<rn>>, <<>>)
                   ELSE Break(s, EncodeRunes(s.cur))
         IN  [t EXCEPT !.pos = s.pos + 4]

RECURSIVE extractUTF32FromBytes(_, _, _, _)
extractUTF32FromBytes(s, d, baseOffset, big) ==
    IF s.done THEN s
    ELSE extractUTF32FromBytes(extractUTF32FromBytesStep(s, d, baseOffset, big),
                               d, baseOffset, big)

\* if len(currentString) >= config.MinLength { if ShouldPrintString(...) { printFunc(...) } }
FlushFiltered(s) ==
    IF Len(s.cur) >= cfg.MinLength /\ ShouldPrintString(s.cur, cfg)
    THEN Append(s.emit, SinkCall(s.cur, s.start, s.first, s.units, Len(s.cur)))
    ELSE s.emit

\* seqLen of a lead byte >= 0x80.
SeqLen(b) ==
    IF b \div 32 = 6 THEN 2
    ELSE IF b \div 16 = 14 THEN 3
    ELSE IF b \div 8 = 30 THEN 4
    ELSE 0

extractUTF8AwareFromBytesStep(s, d) ==
    IF s.pos >= Len(d) THEN [s EXCEPT !.emit = FlushFiltered(s), !.done = TRUE]
    ELSE LET i      == s.pos
             b      == d[i + 1]
             seqLen == SeqLen(b)
             reset  == [s EXCEPT !.emit = FlushFiltered(s), !.cur = <<>>, !.out = <<>>,
                                 !.units = 0, !.pos = i + 1]
         IN  IF b >= 128
             THEN IF seqLen > 0 /\ i + seqLen <= Len(d)
                     /\ \A j \in 1..(seqLen - 1) : IsCont(d[i + j + 1])
                  THEN [Accept(s, i, i, SubSeq(d, i + 1, i + seqLen),
                               SubSeq(d, i + 1, i + seqLen))
                        EXCEPT !.pos = i + seqLen]
                  ELSE reset
             ELSE IF isPrintableASCII(b, cfg.Encoding = "S", cfg.IncludeAllWhitespace)
             THEN [Accept(s, i, i, <<b>>, <<b>>) EXCEPT !.pos = i + 1]
             ELSE reset

RECURSIVE extractUTF8AwareFromBytes(_, _)
extractUTF8AwareFromBytes(s, d) ==
    IF s.done THEN s ELSE extractUTF8AwareFromBytes(extractUTF8AwareFromBytesStep(s, d), d)

\* One iteration of the byte-slice scanner extractStringsWithMmap selects.
extractStringsWithMmapStep(s, d) ==
    CASE cfg.Encoding = "s" ->
            IF cfg.Unicode # "" /\ cfg.Unicode # "default" /\ cfg.Unicode # "invalid"
            THEN extractUTF8AwareFromBytesStep(s, d)
            ELSE extractASCIIFromBytesStep(s, d, 0, FALSE)
      [] cfg.Encoding = "S" -> extractASCIIFromBytesStep(s, d, 0, TRUE)
      [] cfg.Encoding = "b" -> extractUTF16FromBytesStep(s, d, 0, TRUE)
      [] cfg.Encoding = "l" -> extractUTF16FromBytesStep(s, d, 0, FALSE)
      [] cfg.Encoding = "B" -> extractUTF32FromBytesStep(s, d, 0, TRUE)
      [] cfg.Encoding = "L" -> extractUTF32FromBytesStep(s, d, 0, FALSE)
      [] OTHER              -> [s EXCEPT !.done = TRUE, !.failed = TRUE]

\* extractStringsWithMmap once the file is mapped and read into d: the
\* switch over config.Encoding.  An encoding outside the six is an error.
extractStringsWithMmap(d) ==
    CASE cfg.Encoding = "s" ->
            IF cfg.Unicode # "" /\ cfg.Unicode # "default" /\ cfg.Unicode # "invalid"
            THEN extractUTF8AwareFromBytes(ScanStart, d)
            ELSE extractASCIIFromBytes(ScanStart, d, 0, FALSE)
      [] cfg.Encoding = "S" -> extractASCIIFromBytes(ScanStart, d, 0, TRUE)
      [] cfg.Encoding = "b" -> extractUTF16FromBytes(ScanStart, d, 0, TRUE)
      [] cfg.Encoding = "l" -> extractUTF16FromBytes(ScanStart, d, 0, FALSE)
      [] cfg.Encoding = "B" -> extractUTF32FromBytes(ScanStart, d, 0, TRUE)
      [] cfg.Encoding = "L" -> extractUTF32FromBytes(ScanStart, d, 0, FALSE)
      [] OTHER              -> [ScanStart EXCEPT !.done = TRUE, !.failed = TRUE]

\* ExtractFromSection that passes 0 for the base offset: the offsets are
\* relative to the start of the section's data.
ExtractFromSectionNoBase(d, sectionOffset) ==
    CASE cfg.Encoding = "s" -> extractASCIIFromBytes(ScanStart, d, 0, FALSE)
      [] cfg.Encoding = "S" -> extractASCIIFromBytes(ScanStart, d, 0, TRUE)
      [] cfg.Encoding = "b" -> extractUTF16FromBytes(ScanStart, d, 0, TRUE)
      [] cfg.Encoding = "l" -> extractUTF16FromBytes(ScanStart, d, 0, FALSE)
      [] cfg.Encoding = "B" -> extractUTF32FromBytes(ScanStart, d, 0, TRUE)
      [] cfg.Encoding = "L" -> extractUTF32FromBytes(ScanStart, d, 0, FALSE)
      [] OTHER              -> extractASCIIFromBytes(ScanStart, d, 0, FALSE)

\* ExtractFromSection: the byte-slice scanner for the encoding, over the
\* section's data with the section's file offset as base.
ExtractFromSection(d, sectionOffset) ==
    CASE cfg.Encoding = "s" -> extractASCIIFromBytes(ScanStart, d, sectionOffset, FALSE)
      [] cfg.Encoding = "S" -> extractASCIIFromBytes(ScanStart, d, sectionOffset, TRUE)
      [] cfg.Encoding = "b" -> extractUTF16FromBytes(ScanStart, d, sectionOffset, TRUE)
      [] cfg.Encoding = "l" -> extractUTF16FromBytes(ScanStart, d, sectionOffset, FALSE)
      [] cfg.Encoding = "B" -> extractUTF32FromBytes(ScanStart, d, sectionOffset, TRUE)
      [] cfg.Encoding = "L" -> extractUTF32FromBytes(ScanStart, d, sectionOffset, FALSE)
      [] OTHER              -> extractASCIIFromBytes(ScanStart, d, sectionOffset, FALSE)

----------------------------------------------------------------------------
(* Configurations and inputs *)

Encodings == {"s", "S", "b", "l", "B", "L"}

UnicodeModes == {"default", "locale", "escape", "hex", "highlight"}

\* The pattern sets: none, or the exclude pattern "A".
FilterSets == {<<>>, <<65>>}

\* The unicode mode is read by extractASCII and by the "s" case of the
\* mapped path only; the 16- and 32-bit scanners are given the default.
Configs ==
    {c \in [Encoding : Encodings, Unicode : UnicodeModes,
            IncludeAllWhitespace : BOOLEAN, MinLength : 1..MaxMinLength,
            ExcludePatterns : FilterSets, MatchPatterns : {<<>>}] :
        c.Encoding \in {"b", "l", "B", "L"} => c.Unicode = "default"}

RECURSIVE Flatten(_)
Flatten(ss) == IF ss = <<>> THEN <<>> ELSE Head(ss) \o Flatten(Tail(ss))

SeqsUpTo(S, n) == UNION {[1..k -> S] : k \in 0..n}

\* 'A', tab, NUL and a byte >= 128.
ASCIIBytes == {65, 9, 0, 233}

\* 'A', tab, the lead bytes C2 and E0, the continuation bytes 80 and A9:
\* C2 A9 and E0 A9 80 are printable, C2 80 is a C1 control, E0 80 80 is an
\* overlong form.
UTF8Bytes == {65, 9, 194, 224, 128, 169}

\* 'A', tab, a high and a low surrogate.
Units16 == {65, 9, 55357, 56832}

\* 32-bit units, most significant byte first: 'A', tab, a surrogate value,
\* 0x110000 (above the last code point) and 0x80000041 (negative as int32).
Units32 == {<<0, 0, 0, 65>>, <<0, 0, 0, 9>>, <<0, 0, 216, 61>>, <<0, 17, 0, 0>>,
            <<128, 0, 0, 65>>}

Put16(u, big) == IF big THEN <<u \div 256, u % 256>> ELSE <<u % 256, u \div 256>>

Put32(u, big) == IF big THEN u ELSE <<u[4], u[3], u[2], u[1]>>

\* The file contents a configuration is run on: up to n units of the scanner
\* the configuration selects, and for the fixed-width scanners a trailing
\* partial unit.
Inputs(c, n) ==
    CASE c.Encoding \in {"b", "l"} ->
            {Flatten([i \in DOMAIN us |-> Put16(us[i], IsBigEndian(c.Encoding))]) \o tail :
                us \in SeqsUpTo(Units16, n), tail \in {<<>>, <<65>>}}
      [] c.Encoding \in {"B", "L"} ->
            {Flatten([i \in DOMAIN us |-> Put32(us[i], IsBigEndian(c.Encoding))]) \o tail :
                us \in SeqsUpTo(Units32, n), tail \in {<<>>, <<65>>, <<0, 65, 0>>}}
      [] UsesUTF8Aware(c) -> SeqsUpTo(UTF8Bytes, n)
      [] OTHER -> SeqsUpTo(ASCIIBytes, n)

----------------------------------------------------------------------------
(* The scan of one file content through both paths *)

----------------------------------------------------------------------------
(* The batch: cmd/txtr's processing of the files of one invocation.  A     *)
(* file is known by its 1-based position in the argument list; the scan of *)
(* a file is taken as the list of sink calls it makes.                     *)

MaxFiles == 2

MaxWorkers == 2

\* Runs the scan of a readable, non-empty file hands to its sink.
StringsPerFile == 2

\* "ok": readable with strings; "empty": readable, no string; "missing":
\* os.Open and binary.DetectFormat fail.
FileKinds == {"ok", "empty", "missing"}

Modes == {"plain", "json", "stats"}

Invocations ==
    {b \in [files : UNION {[1..n -> FileKinds] : n \in 1..MaxFiles},
            workers : 1..MaxWorkers, mode : Modes,
            dataOnly : BOOLEAN, perFile : BOOLEAN] :
        b.mode # "stats" => ~b.perFile}

\* The sink calls of extractor.ExtractStrings on file f, in order.
Runs(b, f) ==
    IF b.files[f] = "ok" THEN [k \in 1..StringsPerFile |-> [file |-> f, k |-> k]] ELSE <<>>

\* os.Open(filename) and binary.DetectFormat(filename) return an error.
OpenFails(b, f) == b.files[f] = "missing"

\* len(files) > 1 && workers > 1: the worker pool is used.
UsesPool(b) == Len(b.files) > 1 /\ b.workers > 1 /\ ~b.perFile

\* The zero value of a result, and the nil *Statistics.
NoResult == [index |-> 0, file |-> 0, out |-> <<>>, strNil |-> TRUE, err |-> FALSE,
             nil |-> TRUE]

\* result{index, output, err}, jsonFileResult{index, filename, strings, err}
\* and the *stats.Statistics a statistics worker sends (nil on an error,
\* and without an index: its job carries the file name only).  The field
\* file is the job's file name.  strNil says that the strings field of a
\* jsonFileResult is a nil slice: the JSON worker leaves it unset when
\* os.Open fails, and replaces a nil slice by an empty one in every result
\* it sends after a scan or after processFileForJSON.
Result(b, f, out, err) ==
    IF b.mode = "stats"
    THEN [index |-> 0, file |-> f, out |-> out, strNil |-> FALSE, err |-> FALSE,
          nil |-> err]
    ELSE [index |-> f, file |-> f, out |-> out,
          strNil |-> (b.mode = "json" /\ err /\ ~b.dataOnly), err |-> err,
          nil |-> FALSE]

\* printer.NewJSONPrinter
NewJSONPrinter == [FileResults |-> <<>>, currentFile |-> 0, currentStrings |-> <<>>]

FinalizeCurrentFile(j) ==
    [FileResults    |-> Append(j.FileResults,
                               [File |-> j.currentFile, Strings |-> j.currentStrings,
                                Null |-> FALSE, Error |-> FALSE]),
     currentFile    |-> 0,
     currentStrings |-> <<>>]

\* SetFileInfo that starts the new file without finalizing the previous
\* one.
SetFileInfoDropping(j, filename) ==
    [j EXCEPT !.currentFile = filename, !.currentStrings = <<>>]

SetFileInfo(j, filename) ==
    LET f == IF j.currentFile # 0 \/ Len(j.currentStrings) > 0
             THEN FinalizeCurrentFile(j) ELSE j
    IN  [f EXCEPT !.currentFile = filename, !.currentStrings = <<>>]

\* JSONPrinter.PrintString for each sink call of a scan.
PrintStrings(j, rs) == [j EXCEPT !.currentStrings = @ \o rs]

\* AddFileResult without its guard: a nil slice of strings is stored as
\* it came.
AddFileResultKeepNil(j, filename, strings, strNil, err) ==
    [j EXCEPT !.FileResults =
        Append(@, [File |-> filename, Strings |-> strings, Null |-> strNil,
                   Error |-> err])]

\* strNil: the strings argument is a nil slice, which is replaced by an
\* empty one.  Null: the Strings of the entry are nil (JSON null).
AddFileResult(j, filename, strings, strNil, err) ==
    [j EXCEPT !.FileResults =
        Append(@, [File |-> filename, Strings |-> IF strNil THEN <<>> ELSE strings,
                   Null |-> FALSE, Error |-> err])]

\* Flush: the document written, the files of JSONOutput.
Flush(j) ==
    (IF j.currentFile # 0 \/ Len(j.currentStrings) > 0
     THEN FinalizeCurrentFile(j) ELSE j).FileResults

\* The names detectEncoding returns and the buckets of getBucket.
EncodingNames == {"utf-16", "utf-32", "utf-8", "ascii-8bit", "ascii-7bit"}

BucketNames == {"4-10", "11-50", "51-100", "100+"}

\* The number of entries updateLongest and Merge keep.
MaxLongest == 5

\* stats.New: a Statistics with empty maps (a Go map reads 0 for a key it
\* does not hold) and an empty list.  The field strings is history: the
\* sink calls whose strings the object has counted, kept by AddStrings.
New(minLength) ==
    [TotalStrings |-> 0, TotalBytes |-> 0, MinLength |-> minLength, MaxLength |-> 0,
     FilteredCount |-> 0, UnfilteredCount |-> 0,
     EncodingCounts |-> [e \in EncodingNames |-> 0],
     LengthBuckets |-> [b \in BucketNames |-> 0],
     LongestStrings |-> <<>>,
     strings |-> <<>>]

\* stats.New(config.MinLength) in a batch, whose MinLength is 1.
NewStatistics == New(1)

AddUnfiltered(s) == [s EXCEPT !.UnfilteredCount = @ + 1]

hasMultibyteUTF8(str) == \E i \in DOMAIN str : str[i] >= 128

detectEncoding(str, config) ==
    IF config.Encoding \in {"b", "l"} THEN "utf-16"
    ELSE IF config.Encoding \in {"B", "L"} THEN "utf-32"
    ELSE IF utf8Valid(str) /\ hasMultibyteUTF8(str) THEN "utf-8"
    ELSE IF \E i \in DOMAIN str : str[i] >= 128 THEN "ascii-8bit"
    ELSE "ascii-7bit"

getBucket(length) ==
    IF length >= 4 /\ length <= 10 THEN "4-10"
    ELSE IF length >= 11 /\ length <= 50 THEN "11-50"
    ELSE IF length >= 51 /\ length <= 100 THEN "51-100"
    ELSE "100+"

\* sort.Slice by Length, descending.  The lists sorted here have at most
\* 2 * MaxLongest entries, which sort.Slice sorts by insertion: an entry
\* ends behind the longer entries and behind the entries of its own length
\* that stood before it.
SortByLength(list) ==
    LET Rank(l, i) ==
            1 + Cardinality({j \in DOMAIN l :
                                \/ l[j].Length > l[i].Length
                                \/ l[j].Length = l[i].Length /\ j < i})
        Sorted(l) == [p \in DOMAIN l |-> l[CHOOSE i \in DOMAIN l : Rank(l, i) = p]]
    IN  CHOOSE sorted \in {Sorted(l) : l \in {list}} : TRUE

\* The list cut to all of its entries instead of the first MaxLongest.
KeepTopAll(list) == list

KeepTop(list) ==
    IF Len(list) > MaxLongest THEN SubSeq(list, 1, MaxLongest) ELSE list

updateLongest(s, str, offset, length) ==
    LET entry == [Value |-> str, Length |-> length, Offset |-> offset]
    IN  [s EXCEPT !.LongestStrings = KeepTop(SortByLength(Append(@, entry)))]

\* Statistics.Add
Add(s, str, offset, config) ==
    LET length == Len(str)
        s1 == [s EXCEPT !.TotalStrings = @ + 1,
                        !.FilteredCount = @ + 1,
                        !.TotalBytes = @ + length,
                        !.MaxLength = IF length > @ THEN length ELSE @]
        s2 == updateLongest(s1, str, offset, length)
    IN  [s2 EXCEPT !.EncodingCounts[detectEncoding(str, config)] = @ + 1,
                   !.LengthBuckets[getBucket(length)] = @ + 1]

\* Statistics.Merge
Merge(s, other) ==
    [s EXCEPT !.TotalStrings = @ + other.TotalStrings,
              !.FilteredCount = @ + other.FilteredCount,
              !.UnfilteredCount = @ + other.UnfilteredCount,
              !.TotalBytes = @ + other.TotalBytes,
              !.MaxLength = IF other.MaxLength > @ THEN other.MaxLength ELSE @,
              !.EncodingCounts = [e \in EncodingNames |-> @[e] + other.EncodingCounts[e]],
              !.LengthBuckets = [b \in BucketNames |-> @[b] + other.LengthBuckets[b]],
              !.LongestStrings = KeepTop(SortByLength(@ \o other.LongestStrings)),
              !.strings = @ \o other.strings]

\* What the scan of a file hands to its sink in sink call r: file f holds
\* runs of its f-th capital letter, of 4, 5, ... bytes, with one zero byte
\* behind each.
RunBytes(r) == [i \in 1..(3 + r.k) |-> 64 + r.file]

RunOffset(r) == 4 * (r.k - 1) + ((r.k - 1) * r.k) \div 2

\* Statistics.Add for each sink call of a scan, with the configuration of
\* the batch (Encoding "s").
RECURSIVE AddStrings(_, _)
AddStrings(s, rs) ==
    IF rs = <<>> THEN s
    ELSE LET r == Head(rs)
             t == Add(s, RunBytes(r), RunOffset(r), [Encoding |-> "s"])
         IN  AddStrings([t EXCEPT !.strings = Append(@, r)], Tail(rs))

IdleWorker == [pc |-> "idle", job |-> 0, buf |-> <<>>]

\* No file is being processed by its data sections.
SectionIdle ==
    /\ bin = [TargetFormat |-> "", kind |-> "raw", sections |-> <<>>,
              variant |-> "plain", missing |-> FALSE]
    /\ sec = [format |-> "none", detected |-> FALSE, parsed |-> FALSE,
              calls |-> <<>>, bySection |-> <<>>, scans |-> 0, outcome |-> "none"]

\* A nil error, and the error of CompilePatterns: the 1-based position and
\* the quoted text.
NoError == [pos |-> 0, text |-> <<>>]

\* No classifier is being called on its own.
ClassifierIdle ==
    cls = [fn |-> "none", arg |-> 0, allow8bit |-> FALSE,
           includeAllWhitespace |-> FALSE, called |-> FALSE, result |-> FALSE]

\* No Statistics object is being called on its own.
StatsIdle == objs = [stats |-> <<>>, added |-> <<>>, calls |-> 0]

\* What CompilePatterns returns for an empty list: nil, nil.
NoPatterns == [nil |-> TRUE, compiled |-> <<>>, err |-> NoError]

\* main has not started.
MainIdle ==
    /\ cli = [MatchPatterns |-> <<>>, ExcludePatterns |-> <<>>, IgnoreCase |-> FALSE]
    /\ mn = [ret |-> NoPatterns, matchPatterns |-> <<>>, excludePatterns |-> <<>>,
             matchCompiles |-> 0, excludeCompiles |-> 0, opened |-> 0,
             msg |-> "", exit |-> "none"]

\* ExtractStringsFromFile is not running.
FileIdle ==
    /\ fs = [DisableMmap |-> TRUE, MmapThreshold |-> 0, stat |-> "regular",
             fault |-> "none", openFails |-> FALSE, tried |-> FALSE]
    /\ ret = "none"

\* No batch is running.
BatchIdle ==
    /\ batch = [files |-> <<>>, workers |-> 1, mode |-> "plain",
                dataOnly |-> FALSE, perFile |-> FALSE]
    /\ idx = 0
    /\ jobs = <<>>
    /\ results = <<>>
    /\ closed = [jobs |-> FALSE, results |-> FALSE]
    /\ wk = <<>>
    /\ outputs = <<>>
    /\ order = <<>>
    /\ jp = NewJSONPrinter
    /\ agg = NewStatistics
    /\ stdout = <<>>
    /\ stderr = <<>>

vars == <<scanVars, verdict, fileVars, sectionVars, mainVars, cls, objs, batchVars>>

\* The contents of the package's tests: "hello\x00world\x00" and
\* "ab\x00test\x00", and "hello" in UTF-16LE.
HelloWorld == <<104, 101, 108, 108, 111, 0, 119, 111, 114, 108, 100, 0>>

AbTest == <<97, 98, 0, 116, 101, 115, 116, 0>>

HelloUTF16LE == <<104, 0, 101, 0, 108, 0, 108, 0, 111, 0>>

\* Config{MinLength: 4, Encoding: enc} of the tests.
TestConfig(enc) ==
    [Encoding |-> enc, Unicode |-> "default", IncludeAllWhitespace |-> FALSE,
     MinLength |-> 4, ExcludePatterns |-> <<>>, MatchPatterns |-> <<>>]

Examples ==
    {<<TestConfig("s"), HelloWorld>>, <<TestConfig("s"), AbTest>>,
     <<TestConfig("l"), HelloUTF16LE>>}

Init ==
    /\ \/ cfg \in Configs /\ data \in Inputs(cfg, MaxUnits)
       \/ \E x \in Examples : cfg = x[1] /\ data = x[2]
    /\ errAt = 0
    /\ pc = "start"
    /\ st = ScanStart
    /\ mp = ScanStart
    /\ verdict = "none"
    /\ FileIdle
    /\ SectionIdle
    /\ MainIdle
    /\ ClassifierIdle
    /\ StatsIdle
    /\ BatchIdle

\* ExtractStrings(reader, filename, config, printFunc) on the content.
ScanStream ==
    /\ pc = "start"
    /\ st' = ExtractStrings(st)
    /\ pc' = "streamed"
    /\ UNCHANGED <<data, cfg, errAt, mp, verdict, fileVars, sectionVars, mainVars, cls, objs, batchVars>>

\* extractStringsWithMmap(path, config, printFunc) on the same content.
ScanMapped ==
    /\ pc = "streamed"
    /\ mp' = extractStringsWithMmap(data)
    /\ pc' = "done"
    /\ UNCHANGED <<data, cfg, errAt, st, verdict, fileVars, sectionVars, mainVars, cls, objs, batchVars>>

Next == ScanStream \/ ScanMapped

Spec == Init /\ [][Next]_vars

----------------------------------------------------------------------------
(* The streaming scan step by step: every iteration of the scanner's loop  *)
(* is a step, so that the scan can be seen to reach its return.            *)

InitStep ==
    /\ cfg \in {c \in Configs : c.ExcludePatterns = <<>>}
    /\ data \in Inputs(cfg, MaxStepUnits)
    /\ errAt = 0
    /\ pc = "start"
    /\ st = ScanStart
    /\ mp = ScanStart
    /\ verdict = "none"
    /\ FileIdle
    /\ SectionIdle
    /\ MainIdle
    /\ ClassifierIdle
    /\ StatsIdle
    /\ BatchIdle

\* One iteration of the loop of the scanner ExtractStrings selected.
StreamIter ==
    /\ pc = "start"
    /\ ~st.done
    /\ st' = ExtractStringsStep(st)
    /\ UNCHANGED <<data, cfg, errAt, pc, mp, verdict, fileVars, sectionVars, mainVars, cls, objs, batchVars>>

\* ExtractStrings has returned.
StreamReturn ==
    /\ pc = "start"
    /\ st.done
    /\ pc' = "streamed"
    /\ UNCHANGED <<data, cfg, errAt, st, mp, verdict, fileVars, sectionVars, mainVars, cls, objs, batchVars>>

\* One iteration of the loop of the byte-slice scanner.
MapIter ==
    /\ pc = "streamed"
    /\ ~mp.done
    /\ mp' = extractStringsWithMmapStep(mp, data)
    /\ UNCHANGED <<data, cfg, errAt, pc, st, verdict, fileVars, sectionVars, mainVars, cls, objs, batchVars>>

\* extractStringsWithMmap has returned.
MapReturn ==
    /\ pc = "streamed"
    /\ mp.done
    /\ pc' = "done"
    /\ UNCHANGED <<data, cfg, errAt, st, mp, verdict, fileVars, sectionVars, mainVars, cls, objs, batchVars>>

NextStep == StreamIter \/ StreamReturn \/ MapIter \/ MapReturn

SpecStep == InitStep /\ [][NextStep]_vars

\* A scan is one goroutine running a loop: it takes its next step.
LiveStep == SpecStep /\ WF_vars(NextStep)

\* The step-by-step scan of a source whose reads may fail: once and for
\* all at a byte (or at the end of the content, in place of io.EOF), or at
\* the first read of that byte only.
InitRead ==
    /\ cfg \in {c \in Configs : c.ExcludePatterns = <<>>}
    /\ data \in Inputs(cfg, MaxStepUnits)
    /\ errAt \in (0 - (Len(data) + 1))..(Len(data) + 1)
    /\ pc = "start"
    /\ st = ScanStart
    /\ mp = ScanStart
    /\ verdict = "none"
    /\ FileIdle
    /\ SectionIdle
    /\ MainIdle
    /\ ClassifierIdle
    /\ StatsIdle
    /\ BatchIdle

SpecRead == InitRead /\ [][NextStep]_vars

----------------------------------------------------------------------------
(* ExtractStringsFromFile: the choice between the mapped and the buffered  *)
(* path.  fs holds what the function finds: the options DisableMmap and    *)
(* MmapThreshold of its Config, what os.Stat says of the path (a regular   *)
(* file, another kind of file, or an error), the step of the mapped path   *)
(* that fails (mmap.Open, os.Stat, ReadAt, or none), and whether os.Open   *)
(* fails.  The file's size is Len(data).                                   *)

MmapFaults == {"none", "error memory-mapping file", "error getting file info",
               "error reading memory-mapped file"}

\* A step of the mapped path can fail only where os.Stat lets the path be
\* tried.
Files ==
    {f \in [DisableMmap : BOOLEAN, MmapThreshold : {2},
            stat : {"regular", "other", "fails"}, fault : MmapFaults,
            openFails : BOOLEAN, tried : {FALSE}] :
        (f.DisableMmap \/ f.stat # "regular") => f.fault = "none"}

\* shouldUseMmap that asks for a file larger than the threshold.
shouldUseMmapAbove(f) ==
    IF f.DisableMmap THEN FALSE
    ELSE IF f.stat = "fails" THEN FALSE
    ELSE IF f.stat # "regular" THEN FALSE
    ELSE Len(data) > f.MmapThreshold

shouldUseMmap(f) ==
    IF f.DisableMmap THEN FALSE
    ELSE IF f.stat = "fails" THEN FALSE
    ELSE IF f.stat # "regular" THEN FALSE
    ELSE Len(data) >= f.MmapThreshold

\* extractStringsWithMmap(path, config, printFunc): its error and the calls
\* it made to the sink.
MmapAttempt(f) ==
    IF f.fault # "none" THEN [err |-> f.fault, mp |-> ScanStart]
    ELSE LET m == extractStringsWithMmap(data)
         IN  [err |-> IF m.failed THEN "unsupported encoding" ELSE "nil", mp |-> m]

\* os.Open and ExtractStrings on the file.
Buffered(f, m) ==
    IF f.openFails
    THEN [ret |-> "error opening file", mp |-> m, st |-> ScanStart, tried |-> FALSE]
    ELSE [ret |-> "nil", mp |-> m, st |-> ExtractStrings(ScanStart), tried |-> FALSE]

\* ExtractStringsFromFile that hands the error of the mapped path to its
\* caller.  tried: extractStringsWithMmap was called.
ExtractStringsFromFileNoFallback(f) ==
    IF shouldUseMmap(f)
    THEN LET a == MmapAttempt(f)
         IN  [ret |-> a.err, mp |-> a.mp, st |-> ScanStart, tried |-> TRUE]
    ELSE Buffered(f, ScanStart)

ExtractStringsFromFile(f) ==
    IF shouldUseMmap(f)
    THEN LET a == MmapAttempt(f)
         IN  IF a.err = "nil"
             THEN [ret |-> "nil", mp |-> a.mp, st |-> ScanStart, tried |-> TRUE]
             ELSE [Buffered(f, a.mp) EXCEPT !.tried = TRUE]
    ELSE Buffered(f, ScanStart)

\* The configurations of a call: those of the six encodings, and an
\* encoding that is none of them.
FileConfigs ==
    {c \in Configs : c.ExcludePatterns = <<>>}
    \cup {[c EXCEPT !.Encoding = "x"] :
             c \in {d \in Configs : d.Encoding = "s" /\ d.ExcludePatterns = <<>>}}

InitFile ==
    /\ cfg \in FileConfigs
    /\ data \in Inputs(cfg, MaxStepUnits)
    /\ errAt = 0
    /\ pc = "entry"
    /\ st = ScanStart
    /\ mp = ScanStart
    /\ verdict = "none"
    /\ fs \in Files
    /\ ret = "none"
    /\ SectionIdle
    /\ MainIdle
    /\ ClassifierIdle
    /\ StatsIdle
    /\ BatchIdle

\* One call of ExtractStringsFromFile(path, config, printFunc).
CallExtractStringsFromFile ==
    /\ pc = "entry"
    /\ LET r == ExtractStringsFromFile(fs)
       IN  /\ st' = r.st
           /\ mp' = r.mp
           /\ ret' = r.ret
           /\ fs' = [fs EXCEPT !.tried = r.tried]
    /\ pc' = "returned"
    /\ UNCHANGED <<data, cfg, errAt, verdict, sectionVars, mainVars, cls, objs, batchVars>>

NextFile == CallExtractStringsFromFile

SpecFile == InitFile /\ [][NextFile]_vars

----------------------------------------------------------------------------
(* The processing of a file by its data sections: the five functions of    *)
(* cmd/txtr that -d selects (variant), which share one control flow.  bin  *)
(* holds the request and the file: Config.TargetFormat, the container      *)
(* format the file's content has (kind), the data sections its parser      *)
(* finds, each a window of the file, and whether the file is missing.  sec *)
(* holds what the function did: the format it settled on, whether          *)
(* binary.DetectFormat and a container parser ran, the sink calls, those   *)
(* of each section, the scans of the whole file, and how it ended.         *)

\* The units of the body of a file behind its header.
MaxSectionUnits == 3

UnitWidth == CASE cfg.Encoding \in {"b", "l"} -> 2
               [] cfg.Encoding \in {"B", "L"} -> 4
               [] OTHER -> 1

\* A unit of the encoding: 'A', or NUL.
SectionUnit(printable) ==
    LET c == IF printable THEN 65 ELSE 0
    IN  CASE cfg.Encoding = "b" -> <<0, c>>
          [] cfg.Encoding = "l" -> <<c, 0>>
          [] cfg.Encoding = "B" -> <<0, 0, 0, c>>
          [] cfg.Encoding = "L" -> <<c, 0, 0, 0>>
          [] OTHER -> <<c>>

\* A file's content: a header of one unit that holds no text, and a body.
SectionInputs ==
    {SectionUnit(FALSE) \o Flatten([i \in DOMAIN us |-> SectionUnit(us[i])]) :
        us \in SeqsUpTo(BOOLEAN, MaxSectionUnits)}

\* The lists of data sections a parser can find in the content d: none, one
\* or two windows behind the header that do not overlap, in any order.
SectionLists(d) ==
    LET n  == Len(d) \div UnitWidth
        ws == {[Offset |-> a * UnitWidth, Size |-> k * UnitWidth] :
                  a \in 1..(n - 1), k \in 1..(n - 1)}
        fit == {w \in ws : w.Offset + w.Size <= Len(d)}
    IN  {<<>>} \cup {<<w>> : w \in fit}
        \cup {<<p[1], p[2]>> : p \in {q \in fit \X fit :
                                           \/ q[2].Offset >= q[1].Offset + q[1].Size
                                           \/ q[1].Offset >= q[2].Offset + q[2].Size}}

Binaries(d) ==
    {b \in [TargetFormat : {"", "elf", "pe", "macho", "binary"},
            kind : {"elf", "macho", "raw"}, sections : SectionLists(d),
            variant : {"plain", "json", "writer", "jsonWorker", "stats"},
            missing : BOOLEAN] :
        (b.kind = "raw" \/ b.missing) => b.sections = <<>>}

\* binary.DetectFormat: the first container format the content parses as.
DetectFormat(b) ==
    IF b.missing THEN [format |-> "unknown", err |-> TRUE]
    ELSE [format |-> b.kind, err |-> FALSE]

\* binary.ParseBinary: the parser of the format, which fails on a file that
\* is missing or of another format; no parser for a raw binary.
ParseBinary(b, format) ==
    IF format \in {"raw", "unknown"} THEN [sections |-> <<>>, err |-> FALSE, parsed |-> FALSE]
    ELSE IF b.missing \/ b.kind # format
    THEN [sections |-> <<>>, err |-> TRUE, parsed |-> TRUE]
    ELSE [sections |-> b.sections, err |-> FALSE, parsed |-> TRUE]

\* How a variant ends when the file cannot be read.
Failed(b) ==
    CASE b.variant = "plain" -> "reported"
      [] b.variant = "json"  -> "exit"
      [] OTHER               -> "error"

\* The branch without the scan: the function returns with nothing read.
FullScanSkipped(b, r) == [r EXCEPT !.outcome = "returned"]

\* os.Open and ExtractStrings on the whole file.
FullScan(b, r) ==
    IF b.missing THEN [r EXCEPT !.outcome = Failed(b)]
    ELSE [r EXCEPT !.calls = Pairs(ExtractStrings(ScanStart).emit), !.scans = 1,
                   !.outcome = "returned"]

\* Section.Data: the bytes of the window.
SectionData(w) == SubSeq(data, w.Offset + 1, w.Offset + w.Size)

\* The loop over the sections: ExtractFromSection on each.
RECURSIVE ScanSections(_, _)
ScanSections(sections, r) ==
    IF sections = <<>> THEN [r EXCEPT !.outcome = "returned"]
    ELSE LET w == Head(sections)
             m == ExtractFromSection(SectionData(w), w.Offset)
         IN  ScanSections(Tail(sections),
                          [r EXCEPT !.calls = @ \o Pairs(m.emit),
                                    !.bySection = Append(@, m.emit)])

processFileWithBinaryParsing(b) ==
    LET forced == b.TargetFormat # "" /\ b.TargetFormat # "binary"
        chosen == CASE b.TargetFormat = "elf"   -> "elf"
                    [] b.TargetFormat = "pe"    -> "pe"
                    [] b.TargetFormat = "macho" -> "macho"
                    [] OTHER                    -> "raw"
        det    == DetectFormat(b)
        format == IF forced THEN chosen ELSE det.format
        p      == ParseBinary(b, format)
        r      == [sec EXCEPT !.format = format, !.detected = ~forced,
                              !.parsed = p.parsed]
    IN  IF ~forced /\ det.err
        THEN [sec EXCEPT !.format = format, !.detected = TRUE, !.outcome = Failed(b)]
        ELSE IF p.err THEN FullScan(b, r)
        ELSE IF Len(p.sections) = 0 THEN FullScan(b, r)
        ELSE ScanSections(p.sections, r)

SectionConfigs ==
    {c \in Configs : c.Unicode = "default" /\ ~c.IncludeAllWhitespace
                     /\ c.ExcludePatterns = <<>>}

InitSection ==
    /\ cfg \in SectionConfigs
    /\ data \in SectionInputs
    /\ errAt = 0
    /\ pc = "entry"
    /\ st = ScanStart
    /\ mp = ScanStart
    /\ verdict = "none"
    /\ FileIdle
    /\ bin \in Binaries(data)
    /\ sec = [format |-> "none", detected |-> FALSE, parsed |-> FALSE,
              calls |-> <<>>, bySection |-> <<>>, scans |-> 0, outcome |-> "none"]
    /\ MainIdle
    /\ ClassifierIdle
    /\ StatsIdle
    /\ BatchIdle

\* One call of the function main or a worker makes for a file under -d.
ProcessFileSections ==
    /\ pc = "entry"
    /\ sec' = processFileWithBinaryParsing(bin)
    /\ pc' = "returned"
    /\ UNCHANGED <<data, cfg, errAt, st, mp, verdict, fileVars, bin, mainVars, cls, objs, batchVars>>

NextSection == ProcessFileSections

SpecSection == InitSection /\ [][NextSection]_vars

----------------------------------------------------------------------------
(* The classifiers on their own: one call of isPrintableASCII on a byte or *)
(* of isPrintableRune on a rune (int32).                                   *)

\* The ends of the ranges the classifier tests and their neighbours, the
\* whitespace characters, and the ends of int32.
RuneSamples ==
    {-2147483647 - 1, -1, 0, 8, 9, 10, 11, 12, 13, 14, 31, 32, 65, 126, 127, 128,
     159, 160, 233, 55295, 55296, 56320, 57343, 57344, 65533, 65534, 65535,
     65536, 128512, 1114111, 1114112, 2147483647}

InitClassify ==
    /\ cls \in [fn : {"isPrintableASCII"}, arg : 0..255, allow8bit : BOOLEAN,
                includeAllWhitespace : BOOLEAN, called : {FALSE}, result : {FALSE}]
             \cup [fn : {"isPrintableRune"}, arg : RuneSamples, allow8bit : {FALSE},
                   includeAllWhitespace : BOOLEAN, called : {FALSE}, result : {FALSE}]
    /\ cfg = [Encoding |-> "s", Unicode |-> "default", IncludeAllWhitespace |-> FALSE,
              MinLength |-> 1, ExcludePatterns |-> <<>>, MatchPatterns |-> <<>>]
    /\ data = <<>>
    /\ errAt = 0
    /\ pc = "call"
    /\ st = ScanStart
    /\ mp = ScanStart
    /\ verdict = "none"
    /\ FileIdle
    /\ SectionIdle
    /\ MainIdle
    /\ StatsIdle
    /\ BatchIdle

CallIsPrintableASCII ==
    /\ pc = "call"
    /\ cls.fn = "isPrintableASCII"
    /\ cls' = [cls EXCEPT !.called = TRUE,
                          !.result = isPrintableASCII(cls.arg, cls.allow8bit,
                                                      cls.includeAllWhitespace)]
    /\ pc' = "returned"
    /\ UNCHANGED <<data, cfg, errAt, st, mp, verdict, fileVars, sectionVars, mainVars,
                   objs, batchVars>>

CallIsPrintableRune ==
    /\ pc = "call"
    /\ cls.fn = "isPrintableRune"
    /\ cls' = [cls EXCEPT !.called = TRUE,
                          !.result = isPrintableRune(cls.arg, cls.includeAllWhitespace)]
    /\ pc' = "returned"
    /\ UNCHANGED <<data, cfg, errAt, st, mp, verdict, fileVars, sectionVars, mainVars,
                   objs, batchVars>>

NextClassify == CallIsPrintableASCII \/ CallIsPrintableRune

SpecClassify == InitClassify /\ [][NextClassify]_vars

----------------------------------------------------------------------------
(* ShouldPrintString on its own: a candidate and two pattern lists *)

MaxPatterns == 2

MaxCandidate == 2

PatternBytes == {65, 66}

CandidateBytes == {65, 66, 67}

InitFilter ==
    /\ cfg \in [Encoding : {"s"}, Unicode : {"default"}, IncludeAllWhitespace : {FALSE},
                MinLength : {1},
                ExcludePatterns : SeqsUpTo(PatternBytes, MaxPatterns),
                MatchPatterns : SeqsUpTo(PatternBytes, MaxPatterns)]
    /\ data \in SeqsUpTo(CandidateBytes, MaxCandidate)
    /\ errAt = 0
    /\ pc = "candidate"
    /\ st = ScanStart
    /\ mp = ScanStart
    /\ verdict = "none"
    /\ FileIdle
    /\ SectionIdle
    /\ MainIdle
    /\ ClassifierIdle
    /\ StatsIdle
    /\ BatchIdle

Decide ==
    /\ pc = "candidate"
    /\ verdict' = ShouldPrintString(data, cfg)
    /\ pc' = "decided"
    /\ UNCHANGED <<data, cfg, errAt, st, mp, fileVars, sectionVars, mainVars, cls, objs, batchVars>>

NextFilter == Decide

SpecFilter == InitFilter /\ [][NextFilter]_vars

----------------------------------------------------------------------------
(* CompilePatterns and the start of main.  A pattern text is a string over *)
(* 'A', '(' and ')'; regexp.Compile accepts a text whose parentheses are   *)
(* balanced.  A compiled pattern is the source text it was compiled from.  *)

MaxPatternLen == 2

PatternChars == {65, 40, 41}

\* "(?i)"
IgnoreCasePrefix == <<40, 63, 105, 41>>

PatternTexts == UNION {[1..k -> PatternChars] : k \in 1..MaxPatternLen}

\* regexp.Compile succeeds: every ')' closes a '(' and no '(' is left open;
\* a '?' is accepted behind a '(' only, where it opens a flag group.
RECURSIVE WellFormed(_, _, _)
WellFormed(text, depth, prev) ==
    IF text = <<>> THEN depth = 0
    ELSE LET c == Head(text)
         IN  CASE c = 40 -> WellFormed(Tail(text), depth + 1, c)
               [] c = 41 -> depth > 0 /\ WellFormed(Tail(text), depth - 1, c)
               [] c = 63 -> prev = 40 /\ WellFormed(Tail(text), depth, c)
               [] OTHER  -> WellFormed(Tail(text), depth, c)

\* The loop of CompilePatterns whose error quotes the text that was handed
\* to regexp.Compile, prefix included.
RECURSIVE CompileLoopPrefixed(_, _, _, _)
CompileLoopPrefixed(patterns, ignoreCase, i, compiled) ==
    IF i > Len(patterns) THEN [nil |-> FALSE, compiled |-> compiled, err |-> NoError]
    ELSE LET pattern == IF ignoreCase THEN IgnoreCasePrefix \o patterns[i] ELSE patterns[i]
         IN  IF ~WellFormed(pattern, 0, 0)
             THEN [nil |-> TRUE, compiled |-> <<>>, err |-> [pos |-> i, text |-> pattern]]
             ELSE CompileLoopPrefixed(patterns, ignoreCase, i + 1,
                                      Append(compiled, [src |-> pattern]))

\* The loop of CompilePatterns from pattern i on.  i is the 1-based index
\* of the sequence, the i+1 of the code.
RECURSIVE CompileLoop(_, _, _, _)
CompileLoop(patterns, ignoreCase, i, compiled) ==
    IF i > Len(patterns) THEN [nil |-> FALSE, compiled |-> compiled, err |-> NoError]
    ELSE LET pattern == IF ignoreCase THEN IgnoreCasePrefix \o patterns[i] ELSE patterns[i]
         IN  IF ~WellFormed(pattern, 0, 0)
             THEN [nil |-> TRUE, compiled |-> <<>>, err |-> [pos |-> i, text |-> patterns[i]]]
             ELSE CompileLoop(patterns, ignoreCase, i + 1,
                              Append(compiled, [src |-> pattern]))

CompilePatterns(patterns, ignoreCase) ==
    IF Len(patterns) = 0 THEN NoPatterns
    ELSE CompileLoop(patterns, ignoreCase, 1, <<>>)

InitCompile ==
    /\ cli \in [MatchPatterns : SeqsUpTo(PatternTexts, MaxPatterns),
                ExcludePatterns : {<<>>}, IgnoreCase : BOOLEAN]
    /\ mn = [ret |-> NoPatterns, matchPatterns |-> <<>>, excludePatterns |-> <<>>,
             matchCompiles |-> 0, excludeCompiles |-> 0, opened |-> 0,
             msg |-> "", exit |-> "none"]
    /\ ClassifierIdle
    /\ StatsIdle
    /\ cfg = [Encoding |-> "s", Unicode |-> "default", IncludeAllWhitespace |-> FALSE,
              MinLength |-> 1, ExcludePatterns |-> <<>>, MatchPatterns |-> <<>>]
    /\ data = <<>>
    /\ errAt = 0
    /\ pc = "call"
    /\ st = ScanStart
    /\ mp = ScanStart
    /\ verdict = "none"
    /\ FileIdle
    /\ SectionIdle
    /\ BatchIdle

\* One call of CompilePatterns, as the package's test makes it.
CallCompilePatterns ==
    /\ pc = "call"
    /\ mn' = [mn EXCEPT !.ret = CompilePatterns(cli.MatchPatterns, cli.IgnoreCase)]
    /\ pc' = "returned"
    /\ UNCHANGED <<data, cfg, errAt, st, mp, verdict, fileVars, sectionVars, cli, cls, objs, batchVars>>

NextCompile == CallCompilePatterns

SpecCompile == InitCompile /\ [][NextCompile]_vars

\* main: the pattern texts of the command line are one character long, so
\* that a compiled pattern is the literal the filter of this module matches.
MainTexts == {<<65>>, <<40>>, <<41>>}

\* The literal a compiled one-character pattern matches.  The inputs of
\* this specification hold no lower-case letter, on which (?i) would differ.
Literal(re) == re.src[Len(re.src)]

Literals(res) == [i \in 1..Len(res) |-> Literal(res[i])]

InitMain ==
    /\ cli \in [MatchPatterns : SeqsUpTo(MainTexts, MaxPatterns),
                ExcludePatterns : SeqsUpTo(MainTexts, MaxPatterns),
                IgnoreCase : BOOLEAN]
    /\ mn = [ret |-> NoPatterns, matchPatterns |-> <<>>, excludePatterns |-> <<>>,
             matchCompiles |-> 0, excludeCompiles |-> 0, opened |-> 0,
             msg |-> "", exit |-> "none"]
    /\ ClassifierIdle
    /\ StatsIdle
    /\ cfg = [Encoding |-> "s", Unicode |-> "default", IncludeAllWhitespace |-> FALSE,
              MinLength |-> 1, ExcludePatterns |-> <<>>, MatchPatterns |-> <<>>]
    /\ data \in SeqsUpTo({65, 0}, MaxStepUnits)
    /\ errAt = 0
    /\ pc = "compile-match"
    /\ st = ScanStart
    /\ mp = ScanStart
    /\ verdict = "none"
    /\ FileIdle
    /\ SectionIdle
    /\ BatchIdle

\* main with an exclude set whose compile error is ignored: the scan goes
\* ahead without the set.
CompileExcludeLenient ==
    /\ pc = "compile-exclude"
    /\ IF Len(cli.ExcludePatterns) > 0
       THEN LET r == CompilePatterns(cli.ExcludePatterns, cli.IgnoreCase)
            IN  mn' = [mn EXCEPT !.ret = r, !.excludeCompiles = @ + 1,
                                 !.excludePatterns = r.compiled]
       ELSE UNCHANGED mn
    /\ pc' = "config"
    /\ UNCHANGED <<data, cfg, errAt, st, mp, verdict, fileVars, sectionVars, cli, cls, objs, batchVars>>

\* if len(cli.MatchPatterns) > 0 { matchPatterns, err = CompilePatterns(...) }
CompileMatch ==
    /\ pc = "compile-match"
    /\ IF Len(cli.MatchPatterns) > 0
       THEN LET r == CompilePatterns(cli.MatchPatterns, cli.IgnoreCase)
            IN  IF r.err # NoError
                THEN /\ mn' = [mn EXCEPT !.ret = r, !.matchCompiles = @ + 1,
                                         !.msg = "invalid match pattern", !.exit = "1"]
                     /\ pc' = "exited"
                ELSE /\ mn' = [mn EXCEPT !.ret = r, !.matchCompiles = @ + 1,
                                         !.matchPatterns = r.compiled]
                     /\ pc' = "compile-exclude"
       ELSE pc' = "compile-exclude" /\ UNCHANGED mn
    /\ UNCHANGED <<data, cfg, errAt, st, mp, verdict, fileVars, sectionVars, cli, cls, objs, batchVars>>

\* if len(cli.ExcludePatterns) > 0 { excludePatterns, err = CompilePatterns(...) }
CompileExclude ==
    /\ pc = "compile-exclude"
    /\ IF Len(cli.ExcludePatterns) > 0
       THEN LET r == CompilePatterns(cli.ExcludePatterns, cli.IgnoreCase)
            IN  IF r.err # NoError
                THEN /\ mn' = [mn EXCEPT !.ret = r, !.excludeCompiles = @ + 1,
                                         !.msg = "invalid exclude pattern", !.exit = "1"]
                     /\ pc' = "exited"
                ELSE /\ mn' = [mn EXCEPT !.ret = r, !.excludeCompiles = @ + 1,
                                         !.excludePatterns = r.compiled]
                     /\ pc' = "config"
       ELSE pc' = "config" /\ UNCHANGED mn
    /\ UNCHANGED <<data, cfg, errAt, st, mp, verdict, fileVars, sectionVars, cli, cls, objs, batchVars>>

\* config := extractor.Config{..., MatchPatterns: matchPatterns, ...}
BuildConfig ==
    /\ pc = "config"
    /\ cfg' = [cfg EXCEPT !.MatchPatterns = Literals(mn.matchPatterns),
                          !.ExcludePatterns = Literals(mn.excludePatterns)]
    /\ pc' = "scan"
    /\ UNCHANGED <<data, errAt, st, mp, verdict, fileVars, sectionVars, mainVars, cls, objs, batchVars>>

\* The input is opened and handed to ExtractStrings with the printer as
\* sink; main returns.
ScanInput ==
    /\ pc = "scan"
    /\ st' = ExtractStrings(ScanStart)
    /\ mn' = [mn EXCEPT !.opened = @ + 1, !.exit = "0"]
    /\ pc' = "done"
    /\ UNCHANGED <<data, cfg, errAt, mp, verdict, fileVars, sectionVars, cli, cls, objs, batchVars>>

NextMain == CompileMatch \/ CompileExclude \/ BuildConfig \/ ScanInput

SpecMain == InitMain /\ [][NextMain]_vars

----------------------------------------------------------------------------
(* The batch specification: main's dispatch, the sequential loops and the  *)
(* worker pool of processFilesParallel, processFilesParallelJSON and       *)
(* processWithStats.                                                       *)

\* main before its dispatch, for a set of invocations.
InitBatchOf(invocations) ==
    /\ batch \in invocations
    /\ cfg = [Encoding |-> "s", Unicode |-> "default", IncludeAllWhitespace |-> FALSE,
              MinLength |-> 1, ExcludePatterns |-> <<>>, MatchPatterns |-> <<>>]
    /\ data = <<>>
    /\ errAt = 0
    /\ pc = "main"
    /\ st = ScanStart
    /\ mp = ScanStart
    /\ verdict = "none"
    /\ FileIdle
    /\ SectionIdle
    /\ MainIdle
    /\ ClassifierIdle
    /\ StatsIdle
    /\ idx = 0
    /\ jobs = <<>>
    /\ results = <<>>
    /\ closed = [jobs |-> FALSE, results |-> FALSE]
    /\ wk = <<>>
    /\ outputs = <<>>
    /\ order = <<>>
    /\ jp = NewJSONPrinter
    /\ agg = NewStatistics
    /\ stdout = <<>>
    /\ stderr = <<>>

InitBatch == InitBatchOf(Invocations)

NumFiles == Len(batch.files)

\* printer.PrintString / PrintStringToWriter of each sink call.
PlainItems(rs) == [i \in DOMAIN rs |-> [kind |-> "string", body |-> rs[i]]]

StatsItem(s) == [kind |-> "stats", body |-> s]

\* main: a single file or one worker, and per-file statistics, are
\* processed by a loop in main.
StartSequential ==
    /\ pc = "main"
    /\ ~UsesPool(batch)
    /\ pc' = "seq"
    /\ idx' = 1
    /\ UNCHANGED <<scanVarsButPc, verdict, fileVars, sectionVars, mainVars, cls, objs, batch, jobs, results, closed, wk, outputs,
                   order, jp, agg, stdout, stderr>>

\* The sequential loop of main for plain output, one file.
SeqPlain ==
    /\ pc = "seq"
    /\ batch.mode = "plain"
    /\ idx <= NumFiles
    /\ IF OpenFails(batch, idx)
       THEN /\ stderr' = Append(stderr, idx)
            /\ UNCHANGED stdout
       ELSE /\ stdout' = stdout \o PlainItems(Runs(batch, idx))
            /\ UNCHANGED stderr
    /\ idx' = idx + 1
    /\ UNCHANGED <<scanVars, verdict, fileVars, sectionVars, mainVars, cls, objs, batch, jobs, results, closed, wk, outputs,
                   order, jp, agg>>

\* The sequential loop of processWithJSON, one file; with ScanDataOnly it
\* is processFileWithBinaryParsingJSON, which exits the process when the
\* format cannot be detected.
SeqJSON ==
    /\ pc = "seq"
    /\ batch.mode = "json"
    /\ idx <= NumFiles
    /\ IF OpenFails(batch, idx)
       THEN /\ stderr' = Append(stderr, idx)
            /\ IF batch.dataOnly
               THEN pc' = "exited" /\ UNCHANGED <<jp, idx>>
               ELSE /\ jp' = AddFileResult(jp, idx, <<>>, TRUE, TRUE)
                    /\ idx' = idx + 1
                    /\ UNCHANGED pc
       ELSE /\ jp' = PrintStrings(SetFileInfo(jp, idx), Runs(batch, idx))
            /\ idx' = idx + 1
            /\ UNCHANGED <<pc, stderr>>
    /\ UNCHANGED <<scanVarsButPc, verdict, fileVars, sectionVars, mainVars, cls, objs, batch, jobs, results, closed, wk, outputs,
                   order, agg, stdout>>

\* The per-file loop of processWithStats, one file.
SeqStatsPerFile ==
    /\ pc = "seq"
    /\ batch.mode = "stats"
    /\ batch.perFile
    /\ idx <= NumFiles
    /\ IF OpenFails(batch, idx)
       THEN /\ stderr' = Append(stderr, idx)
            /\ UNCHANGED stdout
       ELSE /\ stdout' = stdout
                         \o <<StatsItem(AddStrings(NewStatistics, Runs(batch, idx)))>>
                         \o (IF idx # NumFiles
                             THEN <<[kind |-> "blank", body |-> NewStatistics]>>
                             ELSE <<>>)
            /\ UNCHANGED stderr
    /\ idx' = idx + 1
    /\ UNCHANGED <<scanVars, verdict, fileVars, sectionVars, mainVars, cls, objs, batch, jobs, results, closed, wk, outputs,
                   order, jp, agg>>

\* The sequential loop of the aggregated statistics, one file.
SeqStats ==
    /\ pc = "seq"
    /\ batch.mode = "stats"
    /\ ~batch.perFile
    /\ idx <= NumFiles
    /\ IF OpenFails(batch, idx)
       THEN /\ stderr' = Append(stderr, idx)
            /\ UNCHANGED agg
       ELSE /\ agg' = AddStrings(agg, Runs(batch, idx))
            /\ UNCHANGED stderr
    /\ idx' = idx + 1
    /\ UNCHANGED <<scanVars, verdict, fileVars, sectionVars, mainVars, cls, objs, batch, jobs, results, closed, wk, outputs,
                   order, jp, stdout>>

\* What main writes after its loop: jsonPrinter.Flush, aggregated.Format.
FinalOutput ==
    CASE batch.mode = "json" -> <<[kind |-> "json", body |-> Flush(jp)]>>
      [] batch.mode = "stats" /\ ~batch.perFile -> <<StatsItem(agg)>>
      [] OTHER -> <<>>

SeqFinish ==
    /\ pc = "seq"
    /\ idx > NumFiles
    /\ stdout' = stdout \o FinalOutput
    /\ pc' = "done"
    /\ UNCHANGED <<scanVarsButPc, verdict, fileVars, sectionVars, mainVars, cls, objs, batch, idx, jobs, results, closed, wk,
                   outputs, order, jp, agg, stderr>>

\* The pool is set up: workers goroutines ranging over the jobs channel.
StartPool ==
    /\ pc = "main"
    /\ UsesPool(batch)
    /\ wk' = [w \in 1..batch.workers |-> IdleWorker]
    /\ pc' = "send"
    /\ idx' = 1
    /\ UNCHANGED <<scanVarsButPc, verdict, fileVars, sectionVars, mainVars, cls, objs, batch, jobs, results, closed, outputs,
                   order, jp, agg, stdout, stderr>>

\* jobs <- job{filename, index}
MainSendJob ==
    /\ pc = "send"
    /\ idx <= NumFiles
    /\ jobs' = Append(jobs, idx)
    /\ idx' = idx + 1
    /\ UNCHANGED <<scanVars, verdict, fileVars, sectionVars, mainVars, cls, objs, batch, results, closed, wk, outputs, order,
                   jp, agg, stdout, stderr>>

\* close(jobs); outputs := make([]result, len(filenames))
CloseJobs ==
    /\ pc = "send"
    /\ idx > NumFiles
    /\ closed' = [closed EXCEPT !.jobs = TRUE]
    /\ outputs' = [i \in 1..NumFiles |-> NoResult]
    /\ pc' = "collect"
    /\ UNCHANGED <<scanVarsButPc, verdict, fileVars, sectionVars, mainVars, cls, objs, batch, idx, jobs, results, wk, order,
                   jp, agg, stdout, stderr>>

\* for j := range jobs: a worker receives a job.
WorkerTake ==
    \E w \in DOMAIN wk :
        /\ wk[w].pc = "idle"
        /\ jobs # <<>>
        /\ wk' = [wk EXCEPT ![w] = [pc |-> "run", job |-> Head(jobs), buf |-> <<>>]]
        /\ jobs' = Tail(jobs)
        /\ UNCHANGED <<scanVars, verdict, fileVars, sectionVars, mainVars, cls, objs, batch, idx, results, closed, outputs, order,
                       jp, agg, stdout, stderr>>

\* The jobs channel is closed and drained: the worker returns (wg.Done).
WorkerExit ==
    \E w \in DOMAIN wk :
        /\ wk[w].pc = "idle"
        /\ jobs = <<>>
        /\ closed.jobs
        /\ wk' = [wk EXCEPT ![w].pc = "exited"]
        /\ UNCHANGED <<scanVars, verdict, fileVars, sectionVars, mainVars, cls, objs, batch, idx, jobs, results, closed, outputs,
                       order, jp, agg, stdout, stderr>>

\* A worker that goes on to its next job without sending a result for a
\* file it cannot open.
WorkerFailSilent ==
    \E w \in DOMAIN wk :
        /\ wk[w].pc = "run"
        /\ OpenFails(batch, wk[w].job)
        /\ stderr' = Append(stderr, wk[w].job)
        /\ wk' = [wk EXCEPT ![w] = IdleWorker]
        /\ UNCHANGED <<scanVars, verdict, fileVars, sectionVars, mainVars, cls, objs, batch, idx, jobs, results, closed, outputs, order,
                       jp, agg, stdout>>

\* The file cannot be opened: the worker sends an error result (a nil
\* Statistics, after reporting the file, in statistics mode).
WorkerFail ==
    \E w \in DOMAIN wk :
        /\ wk[w].pc = "run"
        /\ OpenFails(batch, wk[w].job)
        /\ results' = Append(results, Result(batch, wk[w].job, <<>>, TRUE))
        /\ stderr' = IF batch.mode = "stats" THEN Append(stderr, wk[w].job) ELSE stderr
        /\ wk' = [wk EXCEPT ![w] = IdleWorker]
        /\ UNCHANGED <<scanVars, verdict, fileVars, sectionVars, mainVars, cls, objs, batch, idx, jobs, closed, outputs, order,
                       jp, agg, stdout>>

\* A pool whose workers share one sink: the run reaches the buffer of
\* every worker that is scanning.
WorkerScanShared ==
    \E w \in DOMAIN wk :
        /\ wk[w].pc = "run"
        /\ ~OpenFails(batch, wk[w].job)
        /\ Len(wk[w].buf) < Len(Runs(batch, wk[w].job))
        /\ wk' = [x \in DOMAIN wk |->
                     IF wk[x].pc = "run" /\ ~OpenFails(batch, wk[x].job)
                     THEN [wk[x] EXCEPT !.buf =
                              Append(@, Runs(batch, wk[w].job)[Len(wk[w].buf) + 1])]
                     ELSE wk[x]]
        /\ UNCHANGED <<scanVars, verdict, fileVars, sectionVars, mainVars, cls, objs, batch, idx, jobs, results, closed, outputs,
                       order, jp, agg, stdout, stderr>>

\* The scan hands its next run to the worker's sink: the worker's own
\* buffer, temporary JSON printer or Statistics.
WorkerScan ==
    \E w \in DOMAIN wk :
        /\ wk[w].pc = "run"
        /\ ~OpenFails(batch, wk[w].job)
        /\ Len(wk[w].buf) < Len(Runs(batch, wk[w].job))
        /\ wk' = [wk EXCEPT ![w].buf =
                     Append(@, Runs(batch, wk[w].job)[Len(wk[w].buf) + 1])]
        /\ UNCHANGED <<scanVars, verdict, fileVars, sectionVars, mainVars, cls, objs, batch, idx, jobs, results, closed, outputs,
                       order, jp, agg, stdout, stderr>>

\* The scan has returned: results <- result{index: j.index, output: ...}
WorkerSend ==
    \E w \in DOMAIN wk :
        /\ wk[w].pc = "run"
        /\ ~OpenFails(batch, wk[w].job)
        /\ Len(wk[w].buf) = Len(Runs(batch, wk[w].job))
        /\ results' = Append(results, Result(batch, wk[w].job, wk[w].buf, FALSE))
        /\ wk' = [wk EXCEPT ![w] = IdleWorker]
        /\ UNCHANGED <<scanVars, verdict, fileVars, sectionVars, mainVars, cls, objs, batch, idx, jobs, closed, outputs, order,
                       jp, agg, stdout, stderr>>

\* go func() { wg.Wait(); close(results) }()
CloseResults ==
    /\ pc = "collect"
    /\ ~closed.results
    /\ \A w \in DOMAIN wk : wk[w].pc = "exited"
    /\ closed' = [closed EXCEPT !.results = TRUE]
    /\ UNCHANGED <<scanVars, verdict, fileVars, sectionVars, mainVars, cls, objs, batch, idx, jobs, results, wk, outputs, order,
                   jp, agg, stdout, stderr>>

\* The collector filling its slice in the order the results arrive.
CollectAppend(outs, r) ==
    LET free == {i \in DOMAIN outs : outs[i].nil}
    IN  [outs EXCEPT ![CHOOSE i \in free : \A k \in free : i <= k] = r]

\* outputs[r.index] = r: the collector places a result by its index.
Collect(outs, r) == [outs EXCEPT ![r.index] = r]

\* for r := range results: the result is placed (plain, JSON) or merged
\* into the aggregate unless nil (statistics); s is the Statistics the
\* worker filled with the runs of its file.
MainCollect ==
    /\ pc = "collect"
    /\ results # <<>>
    /\ LET r == Head(results)
       IN  /\ IF batch.mode = "stats"
              THEN /\ \E s \in {AddStrings(NewStatistics, r.out)} :
                          agg' = IF r.nil THEN agg ELSE Merge(agg, s)
                   /\ UNCHANGED outputs
              ELSE /\ outputs' = Collect(outputs, r)
                   /\ UNCHANGED agg
           /\ order' = Append(order, r.file)
    /\ results' = Tail(results)
    /\ UNCHANGED <<scanVars, verdict, fileVars, sectionVars, mainVars, cls, objs, batch, idx, jobs, closed, wk, jp, stdout,
                   stderr>>

\* The results channel is closed and drained: the range loop ends.
MainCollected ==
    /\ pc = "collect"
    /\ results = <<>>
    /\ closed.results
    /\ pc' = "build"
    /\ idx' = IF batch.mode = "stats" THEN NumFiles + 1 ELSE 1
    /\ UNCHANGED <<scanVarsButPc, verdict, fileVars, sectionVars, mainVars, cls, objs, batch, jobs, results, closed, wk, outputs,
                   order, jp, agg, stdout, stderr>>

\* for _, r := range outputs: an error is reported, an output printed
\* (plain) or the file result added to the final printer (JSON).
MainPrint ==
    /\ pc = "build"
    /\ idx <= NumFiles
    /\ LET r == outputs[idx]
       IN  /\ stderr' = IF r.err THEN Append(stderr, r.index) ELSE stderr
           /\ IF batch.mode = "json"
              THEN /\ jp' = AddFileResult(jp, r.file, r.out, r.strNil, r.err)
                   /\ UNCHANGED stdout
              ELSE /\ stdout' = IF r.err THEN stdout ELSE stdout \o PlainItems(r.out)
                   /\ UNCHANGED jp
    /\ idx' = idx + 1
    /\ UNCHANGED <<scanVars, verdict, fileVars, sectionVars, mainVars, cls, objs, batch, jobs, results, closed, wk, outputs,
                   order, agg>>

PoolFinish ==
    /\ pc = "build"
    /\ idx > NumFiles
    /\ stdout' = stdout \o FinalOutput
    /\ pc' = "done"
    /\ UNCHANGED <<scanVarsButPc, verdict, fileVars, sectionVars, mainVars, cls, objs, batch, idx, jobs, results, closed, wk,
                   outputs, order, jp, agg, stderr>>

NextBatch ==
    \/ StartSequential \/ SeqPlain \/ SeqJSON \/ SeqStatsPerFile \/ SeqStats
    \/ SeqFinish
    \/ StartPool \/ MainSendJob \/ CloseJobs
    \/ WorkerTake \/ WorkerExit \/ WorkerFail \/ WorkerScan \/ WorkerSend
    \/ CloseResults \/ MainCollect \/ MainCollected \/ MainPrint \/ PoolFinish

SpecBatch == InitBatch /\ [][NextBatch]_vars

----------------------------------------------------------------------------
(* Properties *)

Texts(emit) == [i \in DOMAIN emit |-> emit[i].bytes]

\* Every call either sink has received.
SinkCalls == {st.emit[i] : i \in DOMAIN st.emit} \cup {mp.emit[i] : i \in DOMAIN mp.emit}

IsFixedWidth(enc) == enc \in {"b", "l", "B", "L"}

\* The code points of a UTF-8 text: its bytes that are no continuation bytes.
RuneCount(bs) == Cardinality({i \in DOMAIN bs : ~IsCont(bs[i])})

\* bs is well-formed UTF-8 and every code point it encodes is accepted by
\* the codepoint classifier.
RECURSIVE ValidPrintableUTF8(_, _)
ValidPrintableUTF8(bs, ws) ==
    IF bs = <<>> THEN TRUE
    ELSE LET k == utf8HeadLen(bs)
         IN  /\ k > 0
             /\ isPrintableRune(utf8DecodeRune(bs), ws)
             /\ ~utf16IsSurrogate(utf8DecodeRune(bs))
             /\ ValidPrintableUTF8(SubSeq(bs, k + 1, Len(bs)), ws)

\* C1: for every content and configuration the mapped path hands the sink
\* the same ordered sequence of (bytes, offset) pairs as the streaming path.
C1_PathsAgree == pc = "done" => Pairs(mp.emit) = Pairs(st.emit)

\* C2: the offset handed to the sink with a run is the input offset of the
\* first unit accepted into the run, for every scanner.
C2_OffsetOfFirstUnit == \A e \in SinkCalls : e.offset = e.first

\* C3: every run handed to the sink has at least MinLength of the units the
\* scanner counts; in the ASCII and UTF-8-aware modes the emitted bytes are
\* no fewer than MinLength, and a 16- or 32-bit scanner's text has as many
\* code points as it counted.
C3_MinLength ==
    \A e \in SinkCalls :
        /\ e.counted >= cfg.MinLength
        /\ ~IsFixedWidth(cfg.Encoding) => Len(e.bytes) >= cfg.MinLength
        /\ IsFixedWidth(cfg.Encoding) => RuneCount(e.bytes) = e.counted

\* Both paths have emitted a run of exactly MinLength = MaxMinLength units
\* from a content that holds more than that run.
C3_Witness ==
    /\ pc = "done"
    /\ cfg.MinLength = MaxMinLength
    /\ Len(data) > MaxMinLength
    /\ \E e \in {st.emit[i] : i \in DOMAIN st.emit} : e.counted = cfg.MinLength
    /\ \E e \in {mp.emit[i] : i \in DOMAIN mp.emit} : e.counted = cfg.MinLength

\* C4: in UTF-8-aware raw display, UTF-16 and UTF-32 modes every run handed
\* to a sink, by the streaming or the byte-slice scanner, is valid UTF-8 and
\* decodes only to code points the classifier accepts, never to a surrogate.
C4_ValidPrintableText ==
    (IsFixedWidth(cfg.Encoding) \/ (cfg.Encoding = "s" /\ cfg.Unicode = "locale"))
        => \A e \in SinkCalls : ValidPrintableUTF8(e.bytes, cfg.IncludeAllWhitespace)

\* C5: no scanner hands the sink a run that the configured filter rejects.
C5_FilterRespected == \A e \in SinkCalls : ShouldPrintString(e.bytes, cfg)

Range(s) == {s[i] : i \in DOMAIN s}

\* The patterns of a list that match the candidate.
Matching(ps, str) == {p \in Range(ps) : p \in Range(str)}

\* C6: ShouldPrintString is false when an exclude pattern matches; otherwise
\* with match patterns it is true exactly when one of them matches, and with
\* no match patterns it is true.
C6_FilterDecision ==
    pc = "decided" =>
        verdict = (/\ Matching(cfg.ExcludePatterns, data) = {}
                   /\ (cfg.MatchPatterns = <<>> \/ Matching(cfg.MatchPatterns, data) # {}))

\* A candidate that an exclude and a match pattern both match was rejected.
C6_Witness ==
    /\ pc = "decided"
    /\ Matching(cfg.ExcludePatterns, data) # {}
    /\ Matching(cfg.MatchPatterns, data) # {}
    /\ verdict = FALSE

\* The pending run of a scanner that met MinLength is its last sink call.
PendingFlushed(s, text) ==
    Len(s.cur) >= cfg.MinLength =>
        /\ Len(s.emit) > 0
        /\ s.emit[Len(s.emit)].bytes = text
        /\ s.emit[Len(s.emit)].offset = s.start

\* C7: every scanner, streaming and byte-slice, returns on every finite
\* input; at the return of the streaming scanner the whole input was read
\* and a pending run that meets MinLength was flushed; a fixed-width scanner
\* stopped by a dangling partial unit has flushed its pending run; a UTF-16
\* input of one byte yields no sink call.
C7_ScanEnds ==
    /\ <>(pc = "done")
    /\ [](st.done =>
            /\ st.pos = Len(data)
            /\ PendingFlushed(st, IF IsFixedWidth(cfg.Encoding)
                                  THEN EncodeRunes(st.cur) ELSE st.out)
            /\ (cfg.Encoding \in {"b", "l"} /\ Len(data) = 1) => st.emit = <<>>)
    /\ [](mp.done =>
            /\ IsFixedWidth(cfg.Encoding) => PendingFlushed(mp, EncodeRunes(mp.cur))
            /\ (cfg.Encoding \in {"b", "l"} /\ Len(data) = 1) => mp.emit = <<>>)

\* A fixed-width scan ended on a dangling partial unit and flushed the run
\* that was pending.
C7_Witness ==
    /\ pc = "done"
    /\ IsFixedWidth(cfg.Encoding)
    /\ Len(data) % 2 = 1
    /\ Len(st.cur) >= cfg.MinLength
    /\ Len(st.emit) > 0
    /\ Len(mp.emit) > 0

\* The 16-bit unit at offset i.
UnitAt(d, i, big) == Uint16(SubSeq(d, i + 1, i + 2), big)

IsHighSurrogate(u) == u >= 55296 /\ u < 56320

IsLowSurrogate(u) == u >= 56320 /\ u < 57344

\* A high surrogate directly followed by a low surrogate, at offset i.
PairAt(d, i, big) ==
    /\ i + 4 <= Len(d)
    /\ IsHighSurrogate(UnitAt(d, i, big))
    /\ IsLowSurrogate(UnitAt(d, i + 2, big))

HasPair(d, big) == \E k \in 0..(Len(d) \div 2) : PairAt(d, 2 * k, big)

\* The texts a UTF-16 scan emits when a surrogate pair is one code point, and
\* an unpaired surrogate is a non-printable unit of two bytes after which the
\* scan goes on with the next unit.
RECURSIVE PairedUTF16Texts(_, _, _, _)
PairedUTF16Texts(d, i, run, big) ==
    LET flush == IF Len(run) >= cfg.MinLength THEN <<EncodeRunes(run)>> ELSE <<>>
    IN  IF i + 2 > Len(d) THEN flush
        ELSE IF PairAt(d, i, big)
        THEN LET rn == utf16DecodeRune(UnitAt(d, i, big), UnitAt(d, i + 2, big))
             IN  IF isPrintableRune(rn, cfg.IncludeAllWhitespace)
                 THEN PairedUTF16Texts(d, i + 4, Append(run, rn), big)
                 ELSE flush \o PairedUTF16Texts(d, i + 4, <<>>, big)
        ELSE IF ~utf16IsSurrogate(UnitAt(d, i, big))
                /\ isPrintableRune(UnitAt(d, i, big), cfg.IncludeAllWhitespace)
        THEN PairedUTF16Texts(d, i + 2, Append(run, UnitAt(d, i, big)), big)
        ELSE flush \o PairedUTF16Texts(d, i + 2, <<>>, big)

\* C10: the UTF-16 scanners combine a second unit only with a high surrogate
\* before it; an unpaired surrogate ends the pending run, adds no code point
\* to any run, and the unit after it is scanned as a unit of its own.  (The
\* byte-slice scanner is held to this on contents without a pair.)
C10_UnpairedSurrogates ==
    (pc = "done" /\ cfg.Encoding \in {"b", "l"}) =>
        LET big == IsBigEndian(cfg.Encoding)
        IN  /\ Texts(st.emit) = PairedUTF16Texts(data, 0, <<>>, big)
            /\ ~HasPair(data, big) => Texts(mp.emit) = PairedUTF16Texts(data, 0, <<>>, big)

\* What the sequential loop of main prints for the first n files.
RECURSIVE SequentialOutput(_)
SequentialOutput(n) ==
    IF n = 0 THEN <<>>
    ELSE SequentialOutput(n - 1)
         \o (IF OpenFails(batch, n) THEN <<>> ELSE PlainItems(Runs(batch, n)))

\* C8: for any number of workers and any order in which they finish,
\* processFilesParallel prints nothing before all results are collected and
\* then whole files' outputs, one block per file in the order of the
\* arguments: at every moment, and at the end, its output is what the
\* sequential loop prints for the same files.
C8_OrderedBlocks ==
    batch.mode = "plain" =>
        /\ pc \in {"main", "send", "collect"} => stdout = <<>>
        /\ pc \in {"seq", "build"} => stdout = SequentialOutput(idx - 1)
        /\ pc = "done" => stdout = SequentialOutput(NumFiles)

\* The pool has printed two files with strings whose results arrived in the
\* opposite order.
C8_Witness ==
    /\ pc = "done"
    /\ batch.mode = "plain"
    /\ UsesPool(batch)
    /\ Len(order) >= 2 /\ order[1] > order[2]
    /\ batch.files[order[1]] = "ok" /\ batch.files[order[2]] = "ok"
    /\ Len(stdout) >= 2 * StringsPerFile

\* The strings delivered on standard output: printed, in the JSON document,
\* or counted by the statistics written.
Delivered ==
    CASE batch.mode = "plain" -> {stdout[i].body : i \in DOMAIN stdout}
      [] batch.mode = "json" ->
            UNION {UNION {Range(stdout[i].body[k].Strings) : k \in DOMAIN stdout[i].body} :
                   i \in DOMAIN stdout}
      [] OTHER -> UNION {Range(stdout[i].body.strings) : i \in DOMAIN stdout}

\* C9: in every multi-file mode, when the program has ended, a file that
\* cannot be opened was reported and contributed no string, and every string
\* of every other file was delivered.
C9_FailuresIsolated ==
    pc \in {"done", "exited"} =>
        \A f \in 1..NumFiles :
            IF OpenFails(batch, f)
            THEN /\ f \in Range(stderr)
                 /\ \A r \in Delivered : r.file # f
            ELSE Range(Runs(batch, f)) \subseteq Delivered

\* C11: at every unit boundary of a streaming scanner, that is whenever the
\* scanner is about to read a next unit, its offset counter is the number
\* of input bytes it has consumed.
C11_OffsetIsConsumed == ~st.done => st.offset = st.pos


\* The calls the UTF-8-aware scanners have made: the streaming one runs for
\* the encodings s and S when a unicode mode is set, the byte-slice one for
\* the encoding s.
UTF8AwareCalls ==
    (IF UsesUTF8Aware(cfg) /\ cfg.Encoding \in {"s", "S"}
     THEN {st.emit[i] : i \in DOMAIN st.emit} ELSE {})
    \cup (IF UsesUTF8Aware(cfg) /\ cfg.Encoding = "s"
          THEN {mp.emit[i] : i \in DOMAIN mp.emit} ELSE {})

\* C12: a run the UTF-8-aware scanner hands to the sink holds at least
\* MinLength accepted input characters, whatever the number of input bytes
\* or of display-output bytes.
C12_CountsCharacters == \A e \in UTF8AwareCalls : e.units >= cfg.MinLength

\* The input bytes of the run a sink call was made for.
RunInput(e) == SubSeq(data, e.first + 1, e.first + e.counted)

\* C13: no run the UTF-8-aware scanners hand to the sink was accumulated
\* from input that is not well-formed UTF-8: an overlong form, an encoded
\* surrogate, a value out of range, a stray continuation byte or an invalid
\* lead byte is never part of a run.
C13_InvalidNeverInRun == \A e \in UTF8AwareCalls : utf8Valid(RunInput(e))


\* The 32-bit unit of the content that starts at byte offset p, most
\* significant byte first.
Unit32At(p) ==
    LET bs == SubSeq(data, p + 1, p + 4)
    IN  IF IsBigEndian(cfg.Encoding) THEN bs ELSE <<bs[4], bs[3], bs[2], bs[1]>>

\* The unit is a Unicode scalar value: at most 0x10FFFF, which leaves out
\* the values that are negative as int32, and outside D800..DFFF.
IsScalar32(u) == u[1] = 0 /\ u[2] <= 16 /\ ~(u[2] = 0 /\ u[3] >= 216 /\ u[3] <= 223)

\* C14: the UTF-32 scanners never hand the sink a run that holds a unit
\* above 0x10FFFF, in the surrogate range or negative as int32: such a unit
\* ends the pending run, so every emitted run spans scalar values only.
C14_NonScalarEndsRun ==
    cfg.Encoding \in {"B", "L"} =>
        \A e \in SinkCalls : \A k \in 0..(e.counted - 1) : IsScalar32(Unit32At(e.first + 4 * k))

\* Both UTF-32 scanners have emitted the run before and the run after a
\* unit that is no scalar value.
C14_Witness ==
    /\ pc = "done"
    /\ cfg.Encoding \in {"B", "L"}
    /\ Len(data) = 12
    /\ ~IsScalar32(Unit32At(4))
    /\ Len(st.emit) = 2 /\ st.emit[2].offset = 8
    /\ Len(mp.emit) = 2 /\ mp.emit[2].offset = 8


\* The sink calls of a scanner are for runs that lie one behind the other
\* in the input: no two calls are for the same run.
DistinctRuns(s) ==
    \A i, j \in DOMAIN s.emit :
        i < j => s.emit[i].first + s.emit[i].counted <= s.emit[j].first

\* The filter lets the pending run of the byte scanners through.
FilterAccepts(s) == IsFixedWidth(cfg.Encoding) \/ ShouldPrintString(s.cur, cfg)

\* One step of a scanner from s to t: it makes one sink call at most and
\* leaves the earlier ones alone; the step that meets the end of input
\* hands over the pending run if it has MinLength units, once.
FlushedOnce(s, t) ==
    /\ Len(t.emit) <= Len(s.emit) + 1
    /\ SubSeq(t.emit, 1, Len(s.emit)) = s.emit
    /\ s.done => t.emit = s.emit
    /\ (~s.done /\ t.done /\ ~t.failed /\ s.units >= cfg.MinLength /\ FilterAccepts(s))
          => /\ Len(t.emit) = Len(s.emit) + 1
             /\ t.emit[Len(t.emit)].first = s.first
             /\ t.emit[Len(t.emit)].units = s.units

\* C15: at the end of input a pending run that meets MinLength is handed to
\* the sink exactly once, and no run is handed to the sink twice, whatever
\* the input and whichever read fails.
C15_FlushedOnce ==
    /\ [](DistinctRuns(st) /\ DistinctRuns(mp))
    /\ [][FlushedOnce(st, st') /\ FlushedOnce(mp, mp')]_vars

\* Both scanners have returned at the end of an input that ends inside a
\* run of MinLength units, and have handed that run over; the streaming one
\* had a read fail on the way.
C15_Witness ==
    /\ st.done /\ ~st.failed /\ mp.done
    /\ st.errs > 0
    /\ Len(st.emit) = 1 /\ Len(mp.emit) = 1
    /\ st.emit[1].units = cfg.MinLength
    /\ mp.emit[1].first + mp.emit[1].counted * (IF cfg.Encoding \in {"b", "l"} THEN 2 ELSE 1)
          = Len(data)


\* C16: once a read of the streaming scanner has failed with an error other
\* than the end of input, the sink receives no call beyond those made
\* before the failed read, and the scanner returns reporting the error,
\* wherever in a unit the read failed.
C16_StopsOnReadError ==
    st.errs > 0 => /\ Len(st.emit) = st.errEmit
                   /\ st.errs = 1
                   /\ st.done => st.failed


\* The calls the sink of ExtractStringsFromFile has received: those of the
\* mapped path, then those of the buffered path.
Received == Pairs(mp.emit) \o Pairs(st.emit)

\* The mapped path was taken and returned an error.
MmapFailed == shouldUseMmap(fs) /\ (fs.fault # "none" \/ cfg.Encoding \notin Encodings)

\* C17: when the mapped path fails, for whichever reason, the error
\* ExtractStringsFromFile returns is none of the mapped path, and the sink
\* has received exactly what the streaming scan of the file produces: no
\* run is missing and none came from the mapped attempt as well.
C17_TransparentFallback ==
    (pc = "returned" /\ MmapFailed) =>
        /\ ret = IF fs.openFails THEN "error opening file" ELSE "nil"
        /\ Received = IF fs.openFails THEN <<>> ELSE Pairs(ExtractStrings(ScanStart).emit)

\* The mapped path has failed on a file that can be opened, and the sink
\* has received a run.
C17_Witness ==
    /\ pc = "returned"
    /\ MmapFailed
    /\ ~fs.openFails
    /\ ret = "nil"
    /\ Len(Received) > 0

\* The outcome of the call for a file f that can be opened: its error and
\* the strings its sink received, in order.
Strings(f) ==
    LET r == ExtractStringsFromFile(f)
    IN  [ret |-> r.ret, strings |-> Texts(r.mp.emit) \o Texts(r.st.emit)]

\* C18: for the encodings s and S with no unicode mode, the call with the
\* mapped path forced by a low threshold hands the sink the same strings in
\* the same order as the call with DisableMmap set, whatever the content.
C18_MmapEquivalence ==
    (/\ pc = "returned"
     /\ cfg.Encoding \in {"s", "S"}
     /\ ~UsesUTF8Aware(cfg)
     /\ ~fs.openFails)
        => /\ Texts(mp.emit) \o Texts(st.emit) = Strings([fs EXCEPT !.DisableMmap = TRUE]).strings
           /\ Strings([fs EXCEPT !.DisableMmap = FALSE, !.MmapThreshold = 0]).strings
                 = Strings([fs EXCEPT !.DisableMmap = TRUE]).strings
           /\ ret = "nil"

\* The call has returned from the mapped path, which handed the sink a
\* string that holds a byte of 128 or more.
C18_Witness ==
    /\ pc = "returned"
    /\ cfg.Encoding \in {"s", "S"}
    /\ ~UsesUTF8Aware(cfg)
    /\ shouldUseMmap(fs) /\ fs.fault = "none"
    /\ st.emit = <<>>
    /\ \E i \in DOMAIN mp.emit : \E j \in DOMAIN mp.emit[i].bytes : mp.emit[i].bytes[j] >= 128


\* The byte at offset p is one the ASCII scanner of the configuration
\* accepts.
PrintableAt(p) ==
    isPrintableASCII(data[p + 1], cfg.Encoding = "S", cfg.IncludeAllWhitespace)

\* The maximal runs of printable bytes of the content that have MinLength
\* bytes or more: <<a, b>> is the run of the bytes at the offsets a..b.
MaximalRuns ==
    {r \in (0..(Len(data) - 1)) \X (0..(Len(data) - 1)) :
        /\ r[1] <= r[2]
        /\ \A p \in r[1]..r[2] : PrintableAt(p)
        /\ r[1] = 0 \/ ~PrintableAt(r[1] - 1)
        /\ r[2] = Len(data) - 1 \/ ~PrintableAt(r[2] + 1)
        /\ r[2] - r[1] + 1 >= cfg.MinLength}

\* The sink calls are exactly the runs of MaximalRuns, in input order, each
\* with its bytes and the offset of its first byte.
EmitsMaximalRuns(emit) ==
    /\ Len(emit) = Cardinality(MaximalRuns)
    /\ \A i, j \in DOMAIN emit : i < j => emit[i].offset < emit[j].offset
    /\ \A i \in DOMAIN emit :
          \E r \in MaximalRuns :
              /\ emit[i].offset = r[1]
              /\ emit[i].bytes = SubSeq(data, r[1] + 1, r[2] + 1)

\* C19: the ASCII scanner, from the reader and over the mapped bytes, hands
\* the sink exactly the maximal runs of printable bytes that have MinLength
\* bytes or more, in input order, each with the offset of its first byte;
\* "hello\x00world\x00" with MinLength 4 gives hello at 0 and world at 6,
\* and "ab\x00test\x00" gives test at 3 only.
C19_MaximalRuns ==
    (pc = "done" /\ cfg.Encoding \in {"s", "S"} /\ ~UsesUTF8Aware(cfg)) =>
        /\ EmitsMaximalRuns(st.emit)
        /\ EmitsMaximalRuns(mp.emit)
        /\ (data = HelloWorld /\ cfg = TestConfig("s")) =>
              Pairs(st.emit) = << <<SubSeq(HelloWorld, 1, 5), 0>>,
                                  <<SubSeq(HelloWorld, 7, 11), 6>> >>
        /\ (data = AbTest /\ cfg = TestConfig("s")) =>
              Pairs(st.emit) = << <<SubSeq(AbTest, 4, 7), 3>> >>

\* The scan of "ab\x00test\x00" with MinLength 4 has returned: the run ab
\* was dropped and test handed over.
C19_Witness ==
    /\ pc = "done"
    /\ data = AbTest
    /\ cfg = TestConfig("s")
    /\ Len(st.emit) = 1
    /\ st.emit[1].offset = 3


\* The (text, offset) pairs of the maximal runs of printable code points of
\* a UTF-16 content that have MinLength code points or more: a surrogate
\* pair is one code point of four bytes, and the offset of a run is that of
\* the first byte of its first unit.
RECURSIVE RunsUTF16(_, _, _, _, _)
RunsUTF16(d, i, run, start, big) ==
    LET flush == IF Len(run) >= cfg.MinLength THEN << <<EncodeRunes(run), start>> >> ELSE <<>>
        from  == IF run = <<>> THEN i ELSE start
    IN  IF i + 2 > Len(d) THEN flush
        ELSE IF PairAt(d, i, big)
        THEN LET rn == utf16DecodeRune(UnitAt(d, i, big), UnitAt(d, i + 2, big))
             IN  IF isPrintableRune(rn, cfg.IncludeAllWhitespace)
                 THEN RunsUTF16(d, i + 4, Append(run, rn), from, big)
                 ELSE flush \o RunsUTF16(d, i + 4, <<>>, 0, big)
        ELSE IF ~utf16IsSurrogate(UnitAt(d, i, big))
                /\ isPrintableRune(UnitAt(d, i, big), cfg.IncludeAllWhitespace)
        THEN RunsUTF16(d, i + 2, Append(run, UnitAt(d, i, big)), from, big)
        ELSE flush \o RunsUTF16(d, i + 2, <<>>, 0, big)

\* The same for a UTF-32 content: a unit is a code point if it is a scalar
\* value.
RECURSIVE RunsUTF32(_, _, _, _)
RunsUTF32(d, i, run, start) ==
    LET flush == IF Len(run) >= cfg.MinLength THEN << <<EncodeRunes(run), start>> >> ELSE <<>>
        from  == IF run = <<>> THEN i ELSE start
        u     == Unit32At(i)
        rn    == u[2] * 65536 + u[3] * 256 + u[4]
    IN  IF i + 4 > Len(d) THEN flush
        ELSE IF IsScalar32(u) /\ isPrintableRune(rn, cfg.IncludeAllWhitespace)
        THEN RunsUTF32(d, i + 4, Append(run, rn), from)
        ELSE flush \o RunsUTF32(d, i + 4, <<>>, 0)

\* C20: the UTF-16 and UTF-32 scanners of either byte order hand the sink
\* each maximal run of MinLength or more printable code points as the UTF-8
\* encoding of its code points, with the byte offset of the run's first
\* unit; "hello" in UTF-16LE with MinLength 4 gives hello at offset 0.  (The
\* byte-slice UTF-16 scanner is held to this on contents without a pair.)
C20_WideRuns ==
    /\ (pc = "done" /\ cfg.Encoding \in {"b", "l"}) =>
          LET big == IsBigEndian(cfg.Encoding)
          IN  /\ Pairs(st.emit) = RunsUTF16(data, 0, <<>>, 0, big)
              /\ ~HasPair(data, big) => Pairs(mp.emit) = RunsUTF16(data, 0, <<>>, 0, big)
    /\ (pc = "done" /\ cfg.Encoding \in {"B", "L"}) =>
          /\ Pairs(st.emit) = RunsUTF32(data, 0, <<>>, 0)
          /\ Pairs(mp.emit) = RunsUTF32(data, 0, <<>>, 0)
    /\ (pc = "done" /\ data = HelloUTF16LE /\ cfg = TestConfig("l")) =>
          Pairs(st.emit) = << <<SubSeq(HelloWorld, 1, 5), 0>> >>


\* C21: in the ASCII modes every byte of every run handed to a sink, by the
\* streaming or the byte-slice scanner, satisfies the byte classifier of the
\* active mode: 7-bit or 8-bit, with or without the whitespace rule.
C21_EmittedBytesPrintable ==
    (cfg.Encoding \in {"s", "S"} /\ ~UsesUTF8Aware(cfg)) =>
        \A e \in SinkCalls : \A k \in DOMAIN e.bytes :
            isPrintableASCII(e.bytes[k], cfg.Encoding = "S", cfg.IncludeAllWhitespace)

\* In the 7-bit mode both scanners have handed over the run before and the
\* run behind a byte of 128 or more.
C21_Witness ==
    /\ pc = "done"
    /\ cfg.Encoding = "s" /\ ~UsesUTF8Aware(cfg)
    /\ Len(data) = 3 /\ data[2] >= 128
    /\ Len(st.emit) = 2
    /\ Len(mp.emit) = 2


\* The unit of the encoding at byte index j of d, as a number.
UnitRune(d, j) ==
    CASE UnitWidth = 2 -> Uint16(SubSeq(d, j + 1, j + 2), IsBigEndian(cfg.Encoding))
      [] UnitWidth = 4 -> RuneOfUint32(SubSeq(d, j + 1, j + 4), IsBigEndian(cfg.Encoding))
      [] OTHER -> d[j + 1]

\* The unit at byte index j of d is one the byte-slice scanner accepts.
UnitPrintable(d, j) ==
    IF UnitWidth = 1
    THEN isPrintableASCII(d[j + 1], cfg.Encoding = "S", cfg.IncludeAllWhitespace)
    ELSE isPrintableRune(UnitRune(d, j), cfg.IncludeAllWhitespace)
         /\ (UnitWidth = 4 => utf8ValidRune(UnitRune(d, j)))

\* The sink call e was made for a run whose first unit is at byte index j
\* of d: a run begins there, and its units are those of e.
RunBeginsAt(d, j, e) ==
    /\ j >= 0 /\ j % UnitWidth = 0
    /\ j + e.counted * UnitWidth <= Len(d)
    /\ j = 0 \/ ~UnitPrintable(d, j - UnitWidth)
    /\ \A k \in 0..(e.counted - 1) : UnitPrintable(d, j + k * UnitWidth)
    /\ e.bytes = IF UnitWidth = 1 THEN SubSeq(d, j + 1, j + e.counted)
                 ELSE EncodeRunes([k \in 1..e.counted |-> UnitRune(d, j + (k - 1) * UnitWidth)])

\* C22: every run ExtractFromSection hands over from a section carries the
\* offset section.Offset plus the index, in the section's data, of the first
\* byte of the run's first unit, for every encoding: the offset is relative
\* neither to 0 nor to a section before it.
C22_SectionOffsets ==
    \A i \in DOMAIN sec.bySection :
        \A k \in DOMAIN sec.bySection[i] :
            LET w == ParseBinary(bin, sec.format).sections[i]
                e == sec.bySection[i][k]
            IN  /\ RunBeginsAt(SectionData(w), e.offset - w.Offset, e)
                /\ k > 1 => sec.bySection[i][k - 1].offset < e.offset

\* Two sections were scanned, the second of them lying before the first in
\* the file, and a run was handed over that begins behind the first unit of
\* its section.
C22_Witness ==
    /\ pc = "returned"
    /\ Len(sec.bySection) = 2
    /\ bin.sections[2].Offset < bin.sections[1].Offset
    /\ \E i \in {1, 2} : \E k \in DOMAIN sec.bySection[i] :
          sec.bySection[i][k].offset > bin.sections[i].Offset


\* What a scan of the whole file as an ordinary input hands to the sink.
WholeFileCalls == Pairs(ExtractStrings(ScanStart).emit)

\* The parser was given a file it could read and returned no section and
\* no error.
NoSections ==
    /\ pc = "returned"
    /\ ~bin.missing
    /\ sec.format # "none"
    /\ sec.outcome # Failed(bin)
    /\ ~ParseBinary(bin, sec.format).err
    /\ ParseBinary(bin, sec.format).sections = <<>>

\* C23: under -d, when the parser returns zero sections the whole file is
\* scanned exactly once as an ordinary input, in the plain, the
\* buffered-parallel, the JSON and the statistics paths alike.
C23_ZeroSectionsFullScan ==
    NoSections =>
        /\ sec.scans = 1
        /\ sec.calls = WholeFileCalls
        /\ sec.bySection = <<>>
        /\ sec.outcome = "returned"

\* The statistics path was given an ELF file without a data section and a
\* string was found in the scan of the whole file.
C23_Witness ==
    /\ NoSections
    /\ bin.variant = "stats"
    /\ sec.format = "elf" /\ sec.parsed
    /\ sec.calls # <<>>

\* C30: under -d with the target format 'binary' the file is treated as a
\* raw binary: no container format is detected or parsed and the whole file
\* is scanned, whatever the file holds.
C30_BinaryTargetIsRaw ==
    (pc = "returned" /\ bin.TargetFormat = "binary" /\ ~bin.missing) =>
        /\ sec.format = "raw"
        /\ ~sec.parsed
        /\ sec.scans = 1
        /\ sec.calls = WholeFileCalls


\* The positions of the patterns regexp.Compile rejects, judged on the
\* texts as the caller wrote them.
Rejected(patterns) == {i \in 1..Len(patterns) : ~WellFormed(patterns[i], 0, 0)}

\* C24: CompilePatterns fails on the first pattern that does not compile,
\* returning no compiled set and an error that names the pattern's 1-based
\* position and its original text, without the case-insensitivity prefix;
\* for an empty list it returns no patterns and no error.
C24_CompilePatterns ==
    pc = "returned" =>
        LET ps == cli.MatchPatterns
            r  == mn.ret
        IN  /\ ps = <<>> => r.nil /\ r.err = NoError
            /\ Rejected(ps) # {} =>
                  /\ r.nil /\ r.compiled = <<>>
                  /\ \A j \in Rejected(ps) : r.err.pos <= j
                  /\ r.err.pos \in Rejected(ps)
                  /\ r.err.text = ps[r.err.pos]
            /\ (ps # <<>> /\ Rejected(ps) = {}) =>
                  /\ ~r.nil /\ r.err = NoError
                  /\ Len(r.compiled) = Len(ps)

\* With the ignore-case flag, the second of two patterns was rejected after
\* the first had compiled.
C24_Witness ==
    /\ pc = "returned"
    /\ cli.IgnoreCase
    /\ Len(cli.MatchPatterns) = 2
    /\ Rejected(cli.MatchPatterns) = {2}
    /\ mn.ret.err.pos = 2

\* C25: the match and the exclude patterns are compiled once, before any
\* input is opened or scanned; if either set fails to compile the program
\* stops without the sink ever having been called.
C25_CompiledBeforeScan ==
    /\ mn.matchCompiles <= 1 /\ mn.excludeCompiles <= 1
    /\ (mn.opened > 0 \/ st.emit # <<>>) =>
          /\ mn.matchCompiles = (IF cli.MatchPatterns = <<>> THEN 0 ELSE 1)
          /\ mn.excludeCompiles = (IF cli.ExcludePatterns = <<>> THEN 0 ELSE 1)
          /\ Rejected(cli.MatchPatterns) = {} /\ Rejected(cli.ExcludePatterns) = {}
          /\ mn.exit = "0"
    /\ mn.exit = "1" => pc = "exited" /\ mn.opened = 0 /\ st.emit = <<>>
    /\ (Rejected(cli.MatchPatterns) # {} \/ Rejected(cli.ExcludePatterns) # {}) =>
          pc \in {"compile-match", "compile-exclude", "exited"}

\* The match set compiled, the exclude set did not, and the program stopped
\* on an input that holds a string.
C25_Witness ==
    /\ pc = "exited"
    /\ mn.matchCompiles = 1 /\ mn.excludeCompiles = 1
    /\ mn.msg = "invalid exclude pattern"
    /\ \E k \in DOMAIN data : data[k] = 65


\* processFilesParallelJSON has returned its printer to processWithJSON.
ParallelJSONReturned == pc = "done" /\ batch.mode = "json" /\ UsesPool(batch)

\* C26: processFilesParallelJSON returns exactly one file entry per input
\* file, in input order, for any number of workers and any order in which
\* the files complete; the entry of a file that failed has an error and an
\* empty, never null, strings array, and the entries of the other files
\* carry their strings and no error.
C26_ParallelJSONEntries ==
    ParallelJSONReturned =>
        /\ Len(jp.FileResults) = NumFiles
        /\ \A i \in 1..NumFiles :
              LET entry == jp.FileResults[i]
              IN  /\ entry.File = i
                  /\ ~entry.Null
                  /\ entry.Error = OpenFails(batch, i)
                  /\ entry.Strings = (IF OpenFails(batch, i) THEN <<>>
                                      ELSE Runs(batch, i))

\* Two workers: the second file, which holds strings, completed before the
\* first, which could not be opened.
C26_Witness ==
    /\ ParallelJSONReturned
    /\ ~batch.dataOnly
    /\ batch.files = <<"missing", "ok">>
    /\ order = <<2, 1>>


\* C27: the mapped path is attempted if and only if mmap is not disabled,
\* the path can be stat'ed, it names a regular file and the file's size is
\* at least MmapThreshold, a size equal to the threshold included; and for a
\* path that does not exist ExtractStringsFromFile returns an error.
C27_MmapSelection ==
    pc = "returned" =>
        /\ fs.tried <=> (/\ ~fs.DisableMmap
                         /\ fs.stat = "regular"
                         /\ Len(data) >= fs.MmapThreshold)
        /\ (fs.stat = "fails" /\ fs.openFails) =>
              /\ ret = "error opening file"
              /\ st.emit = <<>> /\ mp.emit = <<>>

\* The mapped path was taken for a file whose size is the threshold, and
\* it handed a string to the sink.
C27_Witness ==
    /\ pc = "returned"
    /\ fs.tried
    /\ Len(data) = fs.MmapThreshold
    /\ ret = "nil"
    /\ mp.emit # <<>>


\* Tab, newline, carriage return, vertical tab and form feed.
FiveWhitespace == {9, 10, 13, 11, 12}

\* C28: isPrintableASCII(b, allow8Bit, includeAllWhitespace) is true if and
\* only if 32 <= b <= 126, or allow8Bit holds and b >= 128, or
\* includeAllWhitespace holds and b is one of the five whitespace bytes;
\* byte 127 and the other control bytes are never printable.
C28_ByteClassifier ==
    (cls.called /\ cls.fn = "isPrintableASCII") =>
        LET b == cls.arg
        IN  /\ cls.result <=> \/ b \in 32..126
                              \/ cls.allow8bit /\ b >= 128
                              \/ cls.includeAllWhitespace /\ b \in FiveWhitespace
            /\ (b = 127 \/ b \in (0..31) \ FiveWhitespace) => ~cls.result

\* Byte 127 was classified with both options set.
C28_Witness ==
    /\ cls.called /\ cls.fn = "isPrintableASCII"
    /\ cls.arg = 127 /\ cls.allow8bit /\ cls.includeAllWhitespace
    /\ ~cls.result

\* C29: isPrintableRune accepts a value if and only if it lies in [32,126],
\* [0xA0,0xD7FF], [0xE000,0xFFFD] or [0x10000,0x10FFFF], or
\* includeAllWhitespace holds and the value is one of the five whitespace
\* characters; it answers for every int32, and surrogates, DEL, the C0 and
\* C1 controls, U+FFFE, U+FFFF, negative values and values above 0x10FFFF
\* are rejected.
C29_RuneClassifier ==
    (cls.fn = "isPrintableRune" /\ pc = "returned") =>
        LET r == cls.arg
        IN  /\ cls.called
            /\ cls.result <=> \/ r \in 32..126
                              \/ r \in 160..55295
                              \/ r \in 57344..65533
                              \/ r \in 65536..1114111
                              \/ cls.includeAllWhitespace /\ r \in FiveWhitespace
            /\ (\/ r \in 55296..57343
                \/ r = 127
                \/ r \in (0..31) \ FiveWhitespace
                \/ r \in 128..159
                \/ r \in {65534, 65535}
                \/ r < 0
                \/ r > 1114111) => ~cls.result

\* U+FFFE was classified with includeAllWhitespace set.
C29_Witness ==
    /\ cls.called /\ cls.fn = "isPrintableRune"
    /\ cls.arg = 65534 /\ cls.includeAllWhitespace
    /\ ~cls.result


\* C31: for the UTF-16 and UTF-32 encodings the byte-slice scanners hand the
\* sink the same sequence of (bytes, offset) pairs as the streaming scanners
\* on every content, contents with surrogate pairs, unpaired surrogates and
\* a trailing partial unit included.
C31_WideScannersAgree ==
    (pc = "done" /\ cfg.Encoding \in {"b", "l", "B", "L"}) =>
        Pairs(mp.emit) = Pairs(st.emit)

\* C32: with encoding 's' and unicode mode locale, escape, hex or highlight
\* the mapped UTF-8-aware scanner hands over the same text and offsets as
\* the streaming UTF-8-aware scanner for every content: the same display
\* form, the same rejection of non-printable or invalid code points, and the
\* same filtering.
C32_UTF8AwareScannersAgree ==
    (pc = "done" /\ UsesUTF8Aware(cfg)) => Pairs(mp.emit) = Pairs(st.emit)


\* What the ASCII scanner over the whole content hands to the sink, with
\* bytes of 128 and more printable (allow8bit) or not.
ASCIIPairs(allow8bit) == Pairs(extractASCIIFromBytes(ScanStart, data, 0, allow8bit).emit)

\* C33: the UTF-8-aware scanner is selected exactly when the encoding is
\* 's' and the unicode mode is locale, escape, hex or highlight; with
\* encoding 'S' the 8-bit ASCII scanner is used whatever the unicode mode, so
\* that bytes of 128 and more stay printable, on the streaming and on the
\* mapped path alike.
C33_ScannerSelection ==
    pc = "done" =>
        /\ cfg.Encoding = "S" =>
              /\ Pairs(st.emit) = ASCIIPairs(TRUE)
              /\ Pairs(mp.emit) = ASCIIPairs(TRUE)
        /\ (cfg.Encoding = "s" /\ ~UsesUTF8Aware(cfg)) =>
              /\ Pairs(st.emit) = ASCIIPairs(FALSE)
              /\ Pairs(mp.emit) = ASCIIPairs(FALSE)


\* The byte at index k (offset k - 1) fails the continuation check: it is no
\* continuation byte and stands where the lead byte one, two or three bytes
\* before it lets the scanner expect one.
FailsContinuation(k) ==
    /\ k \in 2..Len(data)
    /\ ~IsCont(data[k])
    /\ \E n \in 1..3 :
          /\ k - n >= 1
          /\ data[k - n] >= 128
          /\ ExpectedBytes(data[k - n]) >= n
          /\ \A m \in 1..(n - 1) : IsCont(data[k - m])

\* A unit the UTF-8-aware scanners accept begins at index k: a printable
\* ASCII byte, or a two-byte sequence of a printable code point.
UnitBeginsAt(k) ==
    \/ data[k] < 128 /\ isPrintableASCII(data[k], FALSE, cfg.IncludeAllWhitespace)
    \/ /\ k + 1 <= Len(data)
       /\ ExpectedBytes(data[k]) = 1
       /\ utf8Valid(SubSeq(data, k, k + 1))
       /\ isPrintableRune(utf8DecodeRune(SubSeq(data, k, k + 1)), cfg.IncludeAllWhitespace)

\* A run was handed over with the offset of the byte at index k, and, when
\* that byte is an ASCII byte, with it as its first byte.
RunStartsAt(emit, k) ==
    \E i \in DOMAIN emit :
        /\ emit[i].offset = k - 1
        /\ data[k] < 128 => emit[i].bytes[1] = data[k]

\* C34: a byte that fails the continuation check of the UTF-8-aware scanner
\* is not consumed with the bad sequence: it is scanned next as the start of
\* a new unit, the offset counter stays equal to the number of bytes
\* consumed, and a printable byte right behind a bad lead byte starts a run
\* at its own offset, on the streaming and on the byte-slice scanner alike.
C34_FailedContinuationRescanned ==
    (pc = "done" /\ cfg.Encoding = "s" /\ UsesUTF8Aware(cfg)) =>
        /\ st.offset = st.pos /\ st.pos = Len(data)
        /\ mp.pos = Len(data)
        /\ \A k \in DOMAIN data :
              (FailsContinuation(k) /\ UnitBeginsAt(k) /\ cfg.MinLength = 1) =>
                  /\ RunStartsAt(st.emit, k)
                  /\ cfg.ExcludePatterns = <<>> => RunStartsAt(mp.emit, k)

\* The content is a three-byte lead, one continuation byte and 'A': both
\* scanners handed over "A" with offset 2.
C34_Witness ==
    /\ pc = "done" /\ cfg.Encoding = "s" /\ UsesUTF8Aware(cfg)
    /\ data = <<224, 128, 65>>
    /\ Pairs(st.emit) = << <<(<<65>>), 2>> >>
    /\ Pairs(mp.emit) = << <<(<<65>>), 2>> >>


\* C35: in sequential JSON mode (one worker or one file) the document
\* written at the end holds exactly one entry per input file, in the order
\* of the arguments, also when a file cannot be opened: the error entry of
\* a failing file stands behind the entry of the file processed before it.
C35_SequentialJSONOrder ==
    (pc = "done" /\ batch.mode = "json" /\ ~UsesPool(batch)) =>
        LET files == stdout[1].body
        IN  /\ Len(files) = NumFiles
            /\ \A i \in 1..NumFiles :
                   /\ files[i].File = i
                   /\ files[i].Error = OpenFails(batch, i)


\* The worker pool on its own, with a worker's scan of one file as one
\* step: the worker opens the file, the scan hands every run to the
\* worker's own sink, and the result is sent.
WorkerProcess ==
    \E w \in DOMAIN wk :
        /\ wk[w].pc = "run"
        /\ ~OpenFails(batch, wk[w].job)
        /\ results' = Append(results, Result(batch, wk[w].job,
                                             Runs(batch, wk[w].job), FALSE))
        /\ wk' = [wk EXCEPT ![w] = IdleWorker]
        /\ UNCHANGED <<scanVars, verdict, fileVars, sectionVars, mainVars, cls, objs, batch, idx, jobs, closed, outputs, order,
                       jp, agg, stdout, stderr>>

\* The invocations of the pool: two or more files, each of which opens or
\* does not (the pool treats a file by that only), and two or more
\* workers, up to one more than there are files.
PoolInvocations ==
    {b \in [files : UNION {[1..n -> {"ok", "missing"}] : n \in 2..MaxFiles},
            workers : 2..(MaxFiles + 1), mode : Modes,
            dataOnly : BOOLEAN, perFile : {FALSE}] : UsesPool(b)}

InitPool == InitBatchOf(PoolInvocations)

NextPool ==
    \/ StartPool \/ MainSendJob \/ CloseJobs
    \/ WorkerTake \/ WorkerExit \/ WorkerFail \/ WorkerProcess
    \/ CloseResults \/ MainCollect \/ MainCollected \/ MainPrint \/ PoolFinish

\* The pool under the Go scheduler: while some goroutine can take a step,
\* one does.  Both channels have room for len(files) values, so no send
\* waits.
LiveBatch == InitPool /\ [][NextPool]_vars /\ WF_vars(NextPool)

\* The number of places that hold job f: the jobs channel, a worker
\* scanning it, the results channel, and the results the collector has
\* received.
Holders(f) ==
    Cardinality({i \in DOMAIN jobs : jobs[i] = f})
    + Cardinality({w \in DOMAIN wk : wk[w].pc = "run" /\ wk[w].job = f})
    + Cardinality({i \in DOMAIN results : results[i].file = f})
    + Cardinality({i \in DOMAIN order : order[i] = f})

\* Job f has been sent on the jobs channel.
JobSent(f) == pc = "send" => f < idx

PoolSafe ==
    (UsesPool(batch) /\ pc # "main") =>
        /\ \A f \in 1..NumFiles : Holders(f) = IF JobSent(f) THEN 1 ELSE 0
        /\ Len(jobs) <= NumFiles /\ Len(results) <= NumFiles
        /\ closed.results => \A w \in DOMAIN wk : wk[w].pc = "exited"
        /\ pc \in {"build", "done"} =>
              /\ closed.results /\ jobs = <<>> /\ results = <<>>
              /\ \A f \in 1..NumFiles :
                     Cardinality({i \in DOMAIN order : order[i] = f}) = 1

\* C36: in each parallel mode (plain, JSON, statistics), for any number of
\* files and of workers, more workers than files included: every job sent
\* is at all times held by exactly one of the jobs channel, one worker, the
\* results channel and the collector, so that one worker takes it and one
\* result for it reaches the collector; the results channel is closed only
\* when every worker has returned; and the function returns, with every
\* worker goroutine ended and both channels empty.
C36_PoolCompletes == []PoolSafe /\ (UsesPool(batch) ~> pc = "done")

\* A pool of more workers than files has returned, in statistics mode,
\* after one file could not be opened and one worker never got a job.
C36_Witness ==
    /\ pc = "done"
    /\ UsesPool(batch)
    /\ batch.workers > NumFiles
    /\ batch.mode = "stats"
    /\ \E f \in 1..NumFiles : OpenFails(batch, f)
    /\ Len(order) = NumFiles


\* What the sequential loop of processWithStats has aggregated after the
\* first n files.
RECURSIVE SequentialStatistics(_)
SequentialStatistics(n) ==
    IF n = 0 THEN NewStatistics
    ELSE LET s == SequentialStatistics(n - 1)
         IN  IF OpenFails(batch, n) THEN s ELSE AddStrings(s, Runs(batch, n))

\* The fields of a Statistics, without the history.
Fields(s) == [s EXCEPT !.strings = <<>>]

\* C38: the aggregated statistics the pool computes, merging the per-file
\* objects in whatever order the workers finish, are those of the
\* sequential loop on the same files: every counter, the encoding counts,
\* the length buckets, MaxLength and the list of longest strings.
C38_MergeOrderIrrelevant ==
    (pc = "done" /\ batch.mode = "stats" /\ ~batch.perFile /\ UsesPool(batch)) =>
        Fields(stdout[1].body) = Fields(SequentialStatistics(NumFiles))


\* s is the beginning of t.
IsPrefix(s, t) == Len(s) <= Len(t) /\ s = SubSeq(t, 1, Len(s))

\* What the collector has merged: the sink calls of the files whose results
\* have arrived, in that order.
Collected == Flatten([i \in DOMAIN order |-> Runs(batch, order[i])])

\* C37: while the pool runs, a worker that scans holds in its own sink the
\* first sink calls of its own job and nothing else, no two workers scan
\* the same job, a worker without a job holds nothing, every result sent
\* carries the whole output of its file, nothing reaches the standard
\* output, the final JSON printer or the aggregate except through the
\* collector, and the configuration with its pattern sets is the one the
\* pool was started with.
C37_WorkersOwnTheirState ==
    (UsesPool(batch) /\ pc \in {"send", "collect"}) =>
        /\ \A w \in DOMAIN wk :
              IF wk[w].pc = "run"
              THEN IsPrefix(wk[w].buf, Runs(batch, wk[w].job))
              ELSE wk[w].job = 0 /\ wk[w].buf = <<>>
        /\ \A w \in DOMAIN wk : \A x \in DOMAIN wk :
              (w # x /\ wk[w].pc = "run" /\ wk[x].pc = "run") =>
                  wk[w].job # wk[x].job
        /\ \A i \in DOMAIN results :
              results[i].out = IF OpenFails(batch, results[i].file) THEN <<>>
                               ELSE Runs(batch, results[i].file)
        /\ stdout = <<>>
        /\ jp = NewJSONPrinter
        /\ agg.strings = (IF batch.mode = "stats" THEN Collected ELSE <<>>)
        /\ cfg = [Encoding |-> "s", Unicode |-> "default", IncludeAllWhitespace |-> FALSE,
                  MinLength |-> 1, ExcludePatterns |-> <<>>, MatchPatterns |-> <<>>]

\* Two workers are in the middle of their scans of two files, each with
\* one run in its sink.
C37_Witness ==
    /\ UsesPool(batch) /\ pc \in {"send", "collect"}
    /\ \E w \in DOMAIN wk : \E x \in DOMAIN wk :
          /\ w # x
          /\ wk[w].pc = "run" /\ wk[x].pc = "run"
          /\ Len(wk[w].buf) = 1 /\ Len(wk[x].buf) = 1
          /\ Len(Runs(batch, wk[w].job)) > 1 /\ Len(Runs(batch, wk[x].job)) > 1


----------------------------------------------------------------------------
(* Statistics on its own: two objects made by stats.New under a sequence   *)
(* of calls of Add, AddUnfiltered and Merge.                               *)

\* The number of calls made on the two objects.
MaxCalls == 3

\* n bytes b.
Rep(b, n) == [i \in 1..n |-> b]

\* Strings of the lengths of the first five strings of TestUpdateLongest.
Preload == <<Rep(97, 5), Rep(98, 28), Rep(99, 20), Rep(120, 1), Rep(100, 36)>>

\* The strings handed to Add: the sixth string of TestUpdateLongest by its
\* length, a string of two-byte UTF-8 sequences, one of 8-bit bytes in the
\* third bucket, and one as long as the first of Preload.
StatSamples == {Rep(101, 44), <<195, 169, 195, 169>>, Rep(233, 51), Rep(66, 5)}

\* The offset handed to Add with the k-th string of an object, as in
\* TestUpdateLongest: 0x1000, 0x2000, ...
SampleOffset(k) == 4096 * k

\* The object that has received the first n strings of strs.
RECURSIVE Preloaded(_, _, _)
Preloaded(strs, n, config) ==
    IF n = 0 THEN New(4)
    ELSE Add(Preloaded(strs, n - 1, config), strs[n], SampleOffset(n), config)

InitStats ==
    /\ \E enc \in {"s", "l"} : \E n \in 0..MaxLongest :
          /\ cfg = [Encoding |-> enc, Unicode |-> "default",
                    IncludeAllWhitespace |-> FALSE, MinLength |-> 4,
                    ExcludePatterns |-> <<>>, MatchPatterns |-> <<>>]
          /\ objs = [stats |-> <<Preloaded(Preload, n, [Encoding |-> enc]), New(4)>>,
                     added |-> <<SubSeq(Preload, 1, n), <<>> >>,
                     calls |-> 0]
    /\ data = <<>>
    /\ errAt = 0
    /\ pc = "stats"
    /\ st = ScanStart
    /\ mp = ScanStart
    /\ verdict = "none"
    /\ FileIdle
    /\ SectionIdle
    /\ MainIdle
    /\ ClassifierIdle
    /\ BatchIdle

\* s.Add(str, "", offset, config)
CallAdd ==
    /\ pc = "stats"
    /\ objs.calls < MaxCalls
    /\ \E i \in DOMAIN objs.stats : \E str \in StatSamples :
          objs' = [objs EXCEPT
                     !.stats[i] = Add(@, str, SampleOffset(Len(objs.added[i]) + 1), cfg),
                     !.added[i] = Append(@, str),
                     !.calls = @ + 1]
    /\ UNCHANGED <<scanVars, verdict, fileVars, sectionVars, mainVars, cls, batchVars>>

\* s.AddUnfiltered()
CallAddUnfiltered ==
    /\ pc = "stats"
    /\ objs.calls < MaxCalls
    /\ \E i \in DOMAIN objs.stats :
          objs' = [objs EXCEPT !.stats[i] = AddUnfiltered(@), !.calls = @ + 1]
    /\ UNCHANGED <<scanVars, verdict, fileVars, sectionVars, mainVars, cls, batchVars>>

\* s.Merge(other), where other may be s itself.
CallMerge ==
    /\ pc = "stats"
    /\ objs.calls < MaxCalls
    /\ \E i \in DOMAIN objs.stats : \E j \in DOMAIN objs.stats :
          objs' = [objs EXCEPT
                     !.stats[i] = Merge(@, objs.stats[j]),
                     !.added[i] = @ \o objs.added[j],
                     !.calls = @ + 1]
    /\ UNCHANGED <<scanVars, verdict, fileVars, sectionVars, mainVars, cls, batchVars>>

NextStats == CallAdd \/ CallAddUnfiltered \/ CallMerge

SpecStats == InitStats /\ [][NextStats]_vars

RECURSIVE SumLengths(_)
SumLengths(strs) == IF strs = <<>> THEN 0 ELSE Len(Head(strs)) + SumLengths(Tail(strs))

RECURSIVE MaxOfLengths(_)
MaxOfLengths(strs) ==
    IF strs = <<>> THEN 0
    ELSE LET m == MaxOfLengths(Tail(strs))
         IN  IF Len(Head(strs)) > m THEN Len(Head(strs)) ELSE m

\* The sum of the counts of a map.
RECURSIVE SumCounts(_, _)
SumCounts(m, keys) ==
    IF keys = {} THEN 0
    ELSE LET k == CHOOSE x \in keys : TRUE
         IN  m[k] + SumCounts(m, keys \ {k})

\* C39: after any sequence of Add, AddUnfiltered and Merge on objects made
\* by New, in every object TotalStrings, FilteredCount, the sum of
\* EncodingCounts and the sum of LengthBuckets are all the number of strings
\* added, TotalBytes is the sum of their lengths, MaxLength is the largest
\* of their lengths, and LongestStrings holds at most five entries in
\* non-increasing order of length, the first of them of length MaxLength.
C39_StatisticsInvariants ==
    \A i \in DOMAIN objs.stats :
        LET s     == objs.stats[i]
            added == objs.added[i]
            top   == s.LongestStrings
        IN  /\ s.TotalStrings = Len(added)
            /\ s.FilteredCount = s.TotalStrings
            /\ SumCounts(s.EncodingCounts, EncodingNames) = s.TotalStrings
            /\ SumCounts(s.LengthBuckets, BucketNames) = s.TotalStrings
            /\ s.TotalBytes = SumLengths(added)
            /\ s.MaxLength = MaxOfLengths(added)
            /\ Len(top) <= 5
            /\ Len(top) = (IF Len(added) < 5 THEN Len(added) ELSE 5)
            /\ \A k \in 1..(Len(top) - 1) : top[k].Length >= top[k + 1].Length
            /\ \A k \in DOMAIN top : top[k].Length = Len(top[k].Value)
            /\ top # <<>> => top[1].Length = s.MaxLength

\* The second object has added one string and merged the first, which held
\* five: its list was cut to five entries.
C39_Witness ==
    /\ pc = "stats"
    /\ Len(objs.added[2]) = 6
    /\ Len(objs.stats[2].LongestStrings) = 5
    /\ objs.stats[2].TotalStrings = 6
    /\ objs.stats[1].UnfilteredCount = 1


----------------------------------------------------------------------------
(* The JSON printer on its own: one printer made by NewJSONPrinter under a *)
(* sequence of calls of SetFileInfo, PrintString and AddFileResult, and a  *)
(* final Flush.  File names are numbers, 0 the empty name.                 *)

\* The number of calls made before Flush.
MaxPrinterCalls == 4

PrinterFiles == {0, 1, 2}

PrinterStrings == {<<72, 105>>, <<116, 101, 115, 116>>}

\* JSONPrinter.PrintString: the StringResult appended for one sink call.
PrintString(j, str, offset) ==
    [j EXCEPT !.currentStrings =
        Append(@, [Value |-> str, Offset |-> offset, Length |-> Len(str)])]

RECURSIVE SumOfLengths(_)
SumOfLengths(rs) ==
    IF rs = <<>> THEN 0 ELSE Head(rs).Length + SumOfLengths(Tail(rs))

\* Flush: the summary, counted over the strings of all file results.
Summary(files) ==
    LET all == Flatten([e \in DOMAIN files |-> files[e].Strings])
    IN  [TotalStrings |-> Len(all), TotalBytes |-> SumOfLengths(all)]

InitPrinter ==
    /\ cfg = [Encoding |-> "s", Unicode |-> "default", IncludeAllWhitespace |-> FALSE,
              MinLength |-> 1, ExcludePatterns |-> <<>>, MatchPatterns |-> <<>>]
    /\ data = <<>>
    /\ errAt = 0
    /\ pc = "printer"
    /\ st = ScanStart
    /\ mp = ScanStart
    /\ verdict = "none"
    /\ FileIdle
    /\ SectionIdle
    /\ MainIdle
    /\ ClassifierIdle
    /\ StatsIdle
    /\ BatchIdle

\* jp.SetFileInfo(filename, "", nil)
CallSetFileInfo ==
    /\ pc = "printer"
    /\ Len(order) < MaxPrinterCalls
    /\ \E f \in PrinterFiles :
          /\ jp' = SetFileInfo(jp, f)
          /\ order' = Append(order, [op |-> "SetFileInfo", file |-> f, str |-> <<>>])
    /\ UNCHANGED <<scanVars, verdict, fileVars, sectionVars, mainVars, cls, objs, batch, idx, jobs, results, closed, wk,
                   outputs, agg, stdout, stderr>>

\* jp.PrintString(str, "", offset, config): the offset handed over is the
\* number of the call, which tells the strings apart.
CallPrintString ==
    /\ pc = "printer"
    /\ Len(order) < MaxPrinterCalls
    /\ \E str \in PrinterStrings :
          /\ jp' = PrintString(jp, str, Len(order) + 1)
          /\ order' = Append(order, [op |-> "PrintString", file |-> 0, str |-> str])
    /\ UNCHANGED <<scanVars, verdict, fileVars, sectionVars, mainVars, cls, objs, batch, idx, jobs, results, closed, wk,
                   outputs, agg, stdout, stderr>>

\* jp.AddFileResult(filename, "", nil, nil, err): the entry of a file that
\* could not be opened.
CallAddFileResult ==
    /\ pc = "printer"
    /\ Len(order) < MaxPrinterCalls
    /\ \E f \in PrinterFiles \ {0} :
          /\ jp' = AddFileResult(jp, f, <<>>, TRUE, TRUE)
          /\ order' = Append(order, [op |-> "AddFileResult", file |-> f, str |-> <<>>])
    /\ UNCHANGED <<scanVars, verdict, fileVars, sectionVars, mainVars, cls, objs, batch, idx, jobs, results, closed, wk,
                   outputs, agg, stdout, stderr>>

\* jp.Flush(): the document written.
CallFlush ==
    /\ pc = "printer"
    /\ stdout' = <<[kind |-> "json",
                    body |-> [Files |-> Flush(jp), Summary |-> Summary(Flush(jp))]]>>
    /\ pc' = "flushed"
    /\ UNCHANGED <<scanVarsButPc, verdict, fileVars, sectionVars, mainVars, cls, objs, batch, idx, jobs, results, closed, wk,
                   outputs, order, jp, agg, stderr>>

NextPrinter == CallSetFileInfo \/ CallPrintString \/ CallAddFileResult \/ CallFlush

SpecPrinter == InitPrinter /\ [][NextPrinter]_vars

\* The file named by the last SetFileInfo before call k, the empty name if
\* there is none.
NamedBefore(k) ==
    LET named == {c \in 1..(k - 1) : order[c].op = "SetFileInfo"}
    IN  IF named = {} THEN 0
        ELSE order[CHOOSE c \in named : \A d \in named : d <= c].file

\* The places of the document that hold the string of call k.
PlacesOf(doc, k) ==
    {p \in {<<e, n>> : e \in DOMAIN doc.Files, n \in 1..MaxPrinterCalls} :
        /\ p[2] \in DOMAIN doc.Files[p[1]].Strings
        /\ doc.Files[p[1]].Strings[p[2]].Offset = k}

\* C40: after Flush, every string passed to PrintString stands in exactly
\* one file entry of the document, with its value and length, and that
\* entry is of the file named by the last SetFileInfo before the call; the
\* summary's total_strings and total_bytes are the number and the summed
\* lengths of the strings of all file entries, which are the strings
\* passed to PrintString.
C40_PrintedOnceUnderItsFile ==
    pc = "flushed" =>
        LET doc     == stdout[1].body
            printed == {k \in DOMAIN order : order[k].op = "PrintString"}
        IN  /\ \A k \in printed :
                  /\ Cardinality(PlacesOf(doc, k)) = 1
                  /\ \A p \in PlacesOf(doc, k) :
                        /\ doc.Files[p[1]].File = NamedBefore(k)
                        /\ ~doc.Files[p[1]].Error
                        /\ doc.Files[p[1]].Strings[p[2]].Value = order[k].str
                        /\ doc.Files[p[1]].Strings[p[2]].Length = Len(order[k].str)
            /\ doc.Summary.TotalStrings = Cardinality(printed)
            /\ doc.Summary.TotalBytes =
                  SumLengths([k \in DOMAIN order |-> order[k].str])
            /\ doc.Summary = Summary(doc.Files)

\* A document of three entries was written: a file with a string, the error
\* entry of another file, and a second file with a string.
C40_Witness ==
    /\ pc = "flushed"
    /\ Len(stdout[1].body.Files) = 3
    /\ stdout[1].body.Summary.TotalStrings = 2
    /\ stdout[1].body.Summary.TotalBytes = 6
    /\ \E e \in 1..3 : stdout[1].body.Files[e].Error
    /\ order[1].op = "PrintString"

============================================================================
